---- MODULE Spec2Model ----
(***************************************************************************)
(* A model of dinky, a Mongo-style document store on top of SQLite's JSON  *)
(* functions.  One collection "C" is modelled together with its            *)
(* array-index side tables, the query compiler (query.ts) and the update   *)
(* compiler (Collection._update).                                          *)
(*                                                                         *)
(* Values.  A JavaScript / JSON value is a tagged pair <<tag, payload>>;   *)
(* an object is an ordered list of <<key, value>> pairs, because the code  *)
(* walks Object.keys in insertion order and SQLite keeps the key order of  *)
(* the JSON text.  An SQL value is a tagged pair too.                      *)
(***************************************************************************)
EXTENDS Integers, Sequences, FiniteSets, TLC

(***************************************************************************)
(* JavaScript / JSON values                                                *)
(***************************************************************************)
Undefined == <<"undefined", 0>>
Null == <<"null", 0>>
Num(n) == <<"num", n>>
Str(s) == <<"str", s>>
Bool(b) == <<"bool", b>>
Arr(s) == <<"arr", s>>
Obj(ps) == <<"obj", ps>>
\* The JSON string whose characters are JSON.stringify(v): what
\* JSON.stringify hands to a "?" that is bound as text.
StrJson(v) == <<"strjson", v>>

IsObj(v) == v[1] = "obj"
IsArr(v) == v[1] = "arr"

\* JavaScript truthiness, as used by `doc[idField] || uuid` and `x && ...`.
Truthy(v) == v \notin {Undefined, Null, Num(0), Str(""), Bool(FALSE)}

\* typeof v
TypeOf(v) ==
  CASE v[1] = "num" -> "number"
    [] v[1] \in {"str", "strjson"} -> "string"
    [] v[1] = "bool" -> "boolean"
    [] v[1] = "undefined" -> "undefined"
    [] OTHER -> "object"

HasKey(o, k) == IsObj(o) /\ \E i \in DOMAIN o[2] : o[2][i][1] = k
KeyIndex(o, k) == CHOOSE i \in DOMAIN o[2] : o[2][i][1] = k
\* o[k]
GetKey(o, k) == IF HasKey(o, k) THEN o[2][KeyIndex(o, k)][2] ELSE Undefined
\* o[k] = v : an existing key keeps its place, a new key goes last
SetKey(o, k, v) ==
  IF HasKey(o, k) THEN Obj([o[2] EXCEPT ![KeyIndex(o, k)] = <<k, v>>])
  ELSE Obj(Append(o[2], <<k, v>>))
\* Object.keys(o)
KeysOf(o) == [i \in DOMAIN o[2] |-> o[2][i][1]]

\* The keys that start with "$" (TLA+ strings have no prefix test).
DollarKeys ==
  {"$set", "$inc", "$push", "$pop", "$addToSet", "$unset",
   "$and", "$or", "$not", "$in", "$nin", "$eq", "$ne",
   "$gt", "$gte", "$lt", "$lte", "$like", "$exists"}
StartsWithDollar(k) == k \in DollarKeys

\* util.containsClauses
RECURSIVE containsClauses(_)
containsClauses(obj) ==
  IF ~IsObj(obj) THEN FALSE
  ELSE \E i \in DOMAIN obj[2] :
         StartsWithDollar(obj[2][i][1]) \/ containsClauses(obj[2][i][2])

\* util.filterClauses
RECURSIVE filterClauses(_)
filterClauses(obj) ==
  IF ~IsObj(obj) THEN obj
  ELSE LET kept == SelectSeq(obj[2], LAMBDA p : ~StartsWithDollar(p[1]))
       IN Obj([i \in DOMAIN kept |-> <<kept[i][1], filterClauses(kept[i][2])>>])

\* Collection.strippedJSON: JSON.stringify with a replacer that drops every
\* property named idField; JSON.stringify calls the replacer for the
\* properties of nested objects and of the objects inside arrays as well.
RECURSIVE strippedJSON(_, _)
strippedJSON(doc, idField) ==
  IF IsObj(doc)
  THEN LET kept == SelectSeq(doc[2], LAMBDA p : p[1] /= idField)
       IN Obj([i \in DOMAIN kept |->
                 <<kept[i][1], strippedJSON(kept[i][2], idField)>>])
  ELSE IF IsArr(doc)
  THEN Arr([i \in DOMAIN doc[2] |-> strippedJSON(doc[2][i], idField)])
  ELSE doc

(***************************************************************************)
(* SQL values and SQLite's JSON functions                                  *)
(***************************************************************************)
SqlNull == <<"NULL", 0>>
SqlInt(n) == <<"int", n>>
SqlText(s) == <<"text", s>>
\* the text that is the JSON serialisation of v
SqlJson(v) == <<"json", v>>

\* The SQL value json_extract / json_each.value gives for a JSON value.
JsonToSql(v) ==
  CASE v[1] \in {"undefined", "null"} -> SqlNull
    [] v[1] = "num" -> SqlInt(v[2])
    [] v[1] = "str" -> SqlText(v[2])
    [] v[1] = "bool" -> SqlInt(IF v[2] THEN 1 ELSE 0)
    [] v[1] = "strjson" -> SqlJson(v[2])
    [] OTHER -> SqlJson(v)

\* The JSON value json_set stores for an SQL value: text becomes a JSON
\* string even when it looks like JSON.
SqlToJson(s) ==
  CASE s[1] = "NULL" -> Null
    [] s[1] = "int" -> Num(s[2])
    [] s[1] = "text" -> Str(s[2])
    [] OTHER -> StrJson(s[2])

\* How the driver binds a JavaScript value to a "?": numbers, strings,
\* booleans and null are bound; any other value is left unbound (NULL).
bindParameter(v) ==
  CASE v[1] = "num" -> SqlInt(v[2])
    [] v[1] = "str" -> SqlText(v[2])
    [] v[1] = "strjson" -> SqlJson(v[2])
    [] v[1] = "bool" -> SqlInt(IF v[2] THEN 1 ELSE 0)
    [] OTHER -> SqlNull

\* json_extract(document, '$.k'); a NULL document gives NULL
json_extract(document, k) ==
  IF IsObj(document) THEN JsonToSql(GetKey(document, k)) ELSE SqlNull

\* json_set(document, '$.k', value)
json_set(document, k, value) ==
  IF IsObj(document) THEN SetKey(document, k, SqlToJson(value)) ELSE document

\* The rows json_each gives for the JSON value v: the elements of an array,
\* the members of an object, the value itself for a scalar.
JsonEachValues(v) ==
  CASE v[1] = "undefined" -> << >>
    [] v[1] = "arr" -> [i \in DOMAIN v[2] |-> JsonToSql(v[2][i])]
    [] v[1] = "obj" -> [i \in DOMAIN v[2] |-> JsonToSql(v[2][i][2])]
    [] OTHER -> <<JsonToSql(v)>>

\* json_each(document, '$.k'): the path is looked up in the document
json_each_path(document, k) ==
  IF IsObj(document) THEN JsonEachValues(GetKey(document, k)) ELSE << >>

\* json_each(json_extract(document, "$.k")): the extracted SQL value is
\* parsed as JSON text again, so text that is no JSON is an error.
json_each_extract_err(document, k) ==
  json_extract(document, k)[1] = "text"
json_each_extract(document, k) ==
  LET s == json_extract(document, k)
  IN CASE s[1] = "NULL" -> << >>
       [] s[1] = "int" -> <<s>>
       [] s[1] = "json" -> JsonEachValues(s[2])
       [] OTHER -> << >>

(***************************************************************************)
(* The query AST (mongo-parse) and the query compiler (query.ts)           *)
(***************************************************************************)
NoField == "(none)"
Part(field, operator, operand, parts) ==
  [field |-> field, operator |-> operator, operand |-> operand, parts |-> parts]

\* Sequence helpers
RECURSIVE Flatten(_)
Flatten(ss) == IF ss = << >> THEN << >> ELSE Head(ss) \o Flatten(Tail(ss))

\* mongo-parse: whether a field's operand is a set of operators
fieldOperand(operand) ==
  IsObj(operand) /\ operand[2] /= << >> /\ StartsWithDollar(operand[2][1][1])

\* mongo-parse's parse(q).parts: one part per key, in key order.  $and and
\* $or hold one implicit $and part per listed query; a field whose operand
\* is an operator object gives one part per operator; any other field is an
\* equality, with no operator.
RECURSIVE parse(_)
parse(q) ==
  IF ~IsObj(q) THEN << >>
  ELSE Flatten([i \in DOMAIN q[2] |->
    LET key == q[2][i][1]
        val == q[2][i][2]
    IN IF key \in {"$and", "$or"}
       THEN <<Part(NoField, key, val,
                   [j \in DOMAIN val[2] |->
                      Part(NoField, "$and", Arr(<<val[2][j]>>), parse(val[2][j]))])>>
       ELSE IF fieldOperand(val)
       THEN [j \in DOMAIN val[2] |-> Part(key, val[2][j][1], val[2][j][2], << >>)]
       ELSE <<Part(key, "undefined", val, << >>)>>])

\* query.ts operatorMap / formatOperator
formatOperator(o) ==
  CASE o \in {"$eq", "undefined"} -> "IS"
    [] o = "$gt" -> ">"
    [] o = "$gte" -> ">="
    [] o = "$lt" -> "<"
    [] o = "$lte" -> "<="
    [] o = "$ne" -> "!="
    [] o = "$not" -> "NOT"
    [] o = "$nin" -> "NOT IN"
    [] o = "$in" -> "IN"
    [] o = "$like" -> "LIKE"
    [] OTHER -> "undefined"

\* query.ts formatOperand: the placeholder text of an operand, as the list
\* of its items: "?" for a value, "NULL" for null.  A list operand gives
\* one item per element.
formatOperand(operand) ==
  IF IsArr(operand)
  THEN [i \in DOMAIN operand[2] |-> IF operand[2][i] = Null THEN "NULL" ELSE "?"]
  ELSE IF operand = Null THEN <<"NULL">> ELSE <<"?">>

\* query.ts filterOperand: null becomes the empty list []; in a list every
\* element is mapped and then kept only when it is truthy (`x != []` holds
\* of every x, so the filter is `x`): 0, "" and false are dropped, and the
\* [] that stands for null is kept.
filterOperand(operand) ==
  IF IsArr(operand)
  THEN Arr(SelectSeq([i \in DOMAIN operand[2] |->
                        IF operand[2][i] = Null THEN Arr(<< >>) ELSE operand[2][i]],
                     Truthy))
  ELSE IF operand = Null THEN Arr(<< >>) ELSE operand

\* [].concat(x): an array argument is spread one level, any other value is
\* appended as it is.
ConcatArg(x) == IF IsArr(x) THEN x[2] ELSE <<x>>

\* Query.littoJSON: the SQL expression of a field: the column the
\* identifier field maps to, or json_extract(document, "$.field").
littoJSON(field, nonJSONFields) ==
  IF field \in DOMAIN nonJSONFields
  THEN [kind |-> "column", name |-> nonJSONFields[field]]
  ELSE [kind |-> "json", name |-> field]

\* Tokens of a where fragment.
AndToken == [t |-> "AND"]
OrToken == [t |-> "OR"]
RECURSIVE JoinTokens(_, _)
JoinTokens(sqls, sep) ==
  IF sqls = << >> THEN << >>
  ELSE IF Len(sqls) = 1 THEN sqls[1]
  ELSE sqls[1] \o <<sep>> \o JoinTokens(Tail(sqls), sep)

\* Query.partToString.  The result is {sql, operands, join}: sql is a list
\* of tokens (atoms joined by AND / OR without parentheses, as the text is),
\* operands is the value handed to concat, join is the list of joins of the
\* part (empty when the code returns no join), err is set where the code
\* throws.
RECURSIVE partToString(_, _, _, _)
partToString(p, upstreamOperator, arrayIndexes, nonJSONFields) ==
  IF p.operator \in {"$and", "$or", "$not"}
  THEN LET up == IF p.operator = "$not" THEN formatOperator(p.operator) ELSE ""
           res == [i \in DOMAIN p.parts |->
                     partToString(p.parts[i], up, arrayIndexes, nonJSONFields)]
       IN [sql |-> JoinTokens([i \in DOMAIN res |-> res[i].sql],
                              IF p.operator = "$or" THEN OrToken ELSE AndToken),
           operands |-> Arr(Flatten([i \in DOMAIN res |-> ConcatArg(res[i].operands)])),
           join |-> << >>,
           err |-> \E i \in DOMAIN res : res[i].err]
  ELSE IF p.operator \in {"$in", "$nin"}
  THEN LET table == IF p.field \in arrayIndexes THEN "index" ELSE "each"
           join == [kind |-> table, field |-> p.field]
           inAtom == [t |-> "in", alias |-> p.field, up |-> upstreamOperator,
                      items |-> formatOperand(p.operand), operand |-> p.operand]
       IN [sql |-> IF p.operator = "$nin"
                   THEN <<[t |-> "nin", join |-> join, inner |-> inAtom,
                           items |-> inAtom.items, operand |-> p.operand]>>
                   ELSE <<inAtom>>,
           operands |-> filterOperand(p.operand),
           join |-> IF p.operator = "$nin" THEN << >> ELSE <<join>>,
           err |-> p.field = NoField \/ p.parts /= << >>]
  ELSE IF p.operator \in {"$gt", "$gte", "$lt", "$lte", "$ne", "$eq", "$like", "undefined"}
  THEN [sql |-> <<[t |-> "cmp", lhs |-> littoJSON(p.field, nonJSONFields),
                   up |-> upstreamOperator,
                   op |-> formatOperator(p.operator),
                   items |-> <<"?">>, operand |-> p.operand]>>,
        operands |-> filterOperand(p.operand),
        join |-> << >>,
        err |-> p.parts /= << >>]
  ELSE [sql |-> << >>, operands |-> Arr(<< >>), join |-> << >>, err |-> TRUE]

\* new Query(q, name, arrayIndexes, idFields()) with its getters sql, values
\* and join: the parts' sql joined by AND, their operands concatenated, and
\* their joins.
\* get results(): the parts mapped through partToString
results(parts, arrayIndexes, nonJSONFields) ==
  [i \in DOMAIN parts |-> partToString(parts[i], "", arrayIndexes, nonJSONFields)]
\* get sql(), get values(), get join() on the results
getters(res) ==
  [sql |-> JoinTokens([i \in DOMAIN res |-> res[i].sql], AndToken),
   values |-> Flatten([i \in DOMAIN res |-> ConcatArg(res[i].operands)]),
   join |-> Flatten([i \in DOMAIN res |-> res[i].join]),
   err |-> \E i \in DOMAIN res : res[i].err]
Query(q, arrayIndexes, idField) ==
  getters(results(parse(q), arrayIndexes, (idField :> "_id")))


(***************************************************************************)
(* The database: the primary table of the collection, in rowid order, and  *)
(* one side table per array index.  db = [rows, side, uuid]:               *)
(*   rows : list of [id, document]   (_id TEXT PRIMARY KEY, document JSON) *)
(*   side : path -> list of <<_id, value>>, the table "C_<path>"; its      *)
(*          three triggers exist exactly when the table does               *)
(*   uuid : how many identifiers uuid.v4() has handed out                  *)
(***************************************************************************)
DocNull == SqlNull

RECURSIVE SumSeq(_)
SumSeq(s) == IF s = << >> THEN 0 ELSE Head(s) + SumSeq(Tail(s))

\* The number of "?" among the first n items of a token
CountPlaceholders(items, n) ==
  Cardinality({m \in 1..n : items[m] = "?"})
ItemCount(tok) ==
  IF tok.t \in {"AND", "OR"} THEN 0 ELSE CountPlaceholders(tok.items, Len(tok.items))
\* The number of "?" in a where fragment
Placeholders(tokens) == SumSeq([i \in DOMAIN tokens |-> ItemCount(tokens[i])])

\* The SQL values of the items of token i when args are bound by position
\* to the statement, whose first `start` placeholders precede the where
\* fragment.  A "?" beyond the given arguments stays unbound, which is NULL.
ItemValues(tokens, i, args, start) ==
  LET before == start + Placeholders(SubSeq(tokens, 1, i - 1))
      items == tokens[i].items
  IN [n \in DOMAIN items |->
        IF items[n] = "NULL" THEN SqlNull
        ELSE LET pos == before + CountPlaceholders(items, n)
             IN IF pos <= Len(args) THEN bindParameter(args[pos]) ELSE SqlNull]

\* SQLite's comparison of two values for the operators the compiler emits.
\* An integer sorts before any text; two texts are compared for equality
\* only.  A comparison with NULL is NULL (not true), except under IS.
SqlCompare(op, l, r) ==
  LET rank(x) == IF x[1] = "int" THEN 1 ELSE 2
      lt == IF l[1] = "int" /\ r[1] = "int" THEN l[2] < r[2] ELSE rank(l) < rank(r)
      gt == IF l[1] = "int" /\ r[1] = "int" THEN l[2] > r[2] ELSE rank(l) > rank(r)
  IN IF op = "IS" THEN l = r
     ELSE IF l = SqlNull \/ r = SqlNull THEN FALSE
     ELSE CASE op = "!=" -> l /= r
            [] op = "<" -> lt
            [] op = "<=" -> lt \/ l = r
            [] op = ">" -> gt
            [] op = ">=" -> gt \/ l = r
            [] OTHER -> FALSE

\* value IN (items) and value NOT IN (items)
SqlIn(up, value, items) ==
  IF value = SqlNull THEN FALSE
  ELSE IF up = "NOT"
  THEN \A n \in DOMAIN items : items[n] /= SqlNull /\ items[n] /= value
  ELSE \E n \in DOMAIN items : items[n] /= SqlNull /\ items[n] = value

\* The rows a join adds to a row of the collection: the rows of the side
\* table with the row's _id, or the json_each expansion of the path.
JoinValues(db, join, row) ==
  IF join.kind = "index"
  THEN LET t == db.side[join.field]
           mine == SelectSeq(t, LAMBDA r : r[1] = row.id)
       IN [i \in DOMAIN mine |-> mine[i][2]]
  ELSE json_each_extract(row.document, join.field)

SeqRange(s) == {s[i] : i \in DOMAIN s}

\* The value of an atom of the where fragment on a row, with the joined
\* aliases bound by env.
EvalAtom(db, row, tok, vals, env) ==
  CASE tok.t = "cmp" ->
         SqlCompare(tok.op,
                    IF tok.lhs.kind = "column" THEN SqlText(row.id)
                    ELSE json_extract(row.document, tok.lhs.name),
                    vals[1])
    [] tok.t = "in" -> SqlIn(tok.up, env[tok.alias], vals)
    [] tok.t = "nin" ->
         ~\E i \in DOMAIN db.rows :
            /\ db.rows[i].id = row.id
            /\ \E v \in SeqRange(JoinValues(db, tok.join, db.rows[i])) :
                 SqlIn(tok.inner.up, v, vals)
    [] OTHER -> FALSE

\* AND binds tighter than OR and the fragment has no parentheses around its
\* groups: it is true when all atoms between two ORs are.
EvalWhere(db, row, tokens, args, start, env) ==
  LET isOr(i) == tokens[i].t = "OR"
      group(i) == Cardinality({j \in 1..i : isOr(j)})
      atoms == {i \in DOMAIN tokens : tokens[i].t \notin {"AND", "OR"}}
  IN \E g \in 0..Cardinality({j \in DOMAIN tokens : isOr(j)}) :
       \A i \in atoms :
          group(i) = g =>
            EvalAtom(db, row, tokens[i], ItemValues(tokens, i, args, start), env)

\* The bindings of the joined aliases for one row: one value per join.
Envs(db, joins, row) ==
  LET aliases == {joins[j].field : j \in DOMAIN joins}
      vals(a) == UNION {SeqRange(JoinValues(db, joins[j], row)) :
                          j \in {j \in DOMAIN joins : joins[j].field = a}}
  IN IF aliases = {} THEN {<< >>}
     ELSE {e \in [aliases -> UNION {vals(a) : a \in aliases}] :
             \A a \in aliases : e[a] \in vals(a)}

\* Whether the backend rejects a statement built from the query: a where
\* fragment that names an alias no join introduces, more arguments than
\* placeholders, a NOT in front of a comparison that takes none, an index
\* table that does not exist, or a path json_each cannot parse.
StatementError(db, query, args, start) ==
  \/ query.err
  \/ \E i \in DOMAIN query.sql :
       \/ /\ query.sql[i].t = "in"
          /\ query.sql[i].alias \notin {query.join[j].field : j \in DOMAIN query.join}
       \/ /\ query.sql[i].t = "cmp"
          /\ query.sql[i].up /= ""
          /\ query.sql[i].op /= "LIKE"
       \/ /\ query.sql[i].t = "nin"
          /\ query.sql[i].join.kind = "index"
          /\ query.sql[i].join.field \notin DOMAIN db.side
       \/ /\ query.sql[i].t = "nin"
          /\ query.sql[i].join.kind = "each"
          /\ \E r \in DOMAIN db.rows :
               json_each_extract_err(db.rows[r].document, query.sql[i].join.field)
  \/ Len(args) > start + Placeholders(query.sql)
  \/ \E j \in DOMAIN query.join :
       IF query.join[j].kind = "index"
       THEN query.join[j].field \notin DOMAIN db.side
       ELSE \E r \in DOMAIN db.rows :
              json_each_extract_err(db.rows[r].document, query.join[j].field)

\* SELECT DISTINCT "C"._id FROM "C" <join> WHERE <sql> [LIMIT 1]: the
\* positions, in rowid order, of the rows the query selects.
Limit(hit, limit) ==
  IF limit /\ hit /= {}
  THEN {CHOOSE i \in hit : \A j \in hit : i <= j}
  ELSE hit
Select(db, query, args, start, limit) ==
  Limit({i \in DOMAIN db.rows :
           \E env \in Envs(db, query.join, db.rows[i]) :
              EvalWhere(db, db.rows[i], query.sql, args, start, env)},
        limit)

\* The three triggers of an array index on path p.
\*   AFTER INSERT: INSERT INTO "C_p" SELECT NEW._id, json_each.* ...
InsertTrigger(side, id, document) ==
  [p \in DOMAIN side |->
     side[p] \o [i \in DOMAIN json_each_path(document, p) |->
                   <<id, json_each_path(document, p)[i]>>]]
\*   AFTER DELETE: DELETE FROM "C_p" WHERE _id = OLD._id
DeleteTrigger(side, id) ==
  [p \in DOMAIN side |-> SelectSeq(side[p], LAMBDA r : r[1] /= id)]
\*   An update trigger without its DELETE: the rows of OLD stay.
UpdateTriggerKeepsOld(side, id, document) ==
  InsertTrigger(side, id, document)
\*   AFTER UPDATE: delete the rows of OLD._id, insert the expansion of NEW
UpdateTrigger(side, id, document) ==
  InsertTrigger(DeleteTrigger(side, id), id, document)


(***************************************************************************)
(* Statements                                                              *)
(***************************************************************************)
NoErr == "none"

\* INSERT INTO "C" VALUES (?, json(?)); the primary key rejects a second
\* row with the same _id; the insert trigger fires.
ExecInsert(db, id, document) ==
  IF \E i \in DOMAIN db.rows : db.rows[i].id = id
  THEN [db |-> db, err |-> "SQLITE_CONSTRAINT"]
  ELSE [db |-> [db EXCEPT !.rows = Append(@, [id |-> id, document |-> document]),
                          !.side = InsertTrigger(@, id, document)],
        err |-> NoErr]

\* DELETE FROM "C" WHERE ...: the rows at the positions in hit go; the
\* delete trigger fires for each.
RECURSIVE FireDelete(_, _, _, _)
FireDelete(side, rows, hit, i) ==
  IF i > Len(rows) THEN side
  ELSE FireDelete(IF i \in hit THEN DeleteTrigger(side, rows[i].id) ELSE side,
                  rows, hit, i + 1)
RECURSIVE DropRows(_, _, _)
DropRows(rows, hit, i) ==
  IF i > Len(rows) THEN << >>
  ELSE (IF i \in hit THEN << >> ELSE <<rows[i]>>) \o DropRows(rows, hit, i + 1)
ExecDelete(db, hit) ==
  [db EXCEPT !.rows = DropRows(db.rows, hit, 1),
             !.side = FireDelete(db.side, db.rows, hit, 1)]

\* The SET expressions of the update compiler, on one document.  Each gives
\* [doc, err]: err when SQLite rejects the expression for this row.
DocOk(doc) == [doc |-> doc, err |-> FALSE]
DocErr(doc) == [doc |-> doc, err |-> TRUE]

\* $inc: json_set(document, '$.k', coalesce(json_extract(document, '$.k'), 0) + ?)
\* Text that is no number counts as 0 in the sum.
IncDocOverwrites(doc, k, n) == DocOk(json_set(doc, k, SqlInt(n)))
IncDoc(doc, k, n) ==
  LET x == json_extract(doc, k)
  IN DocOk(json_set(doc, k, SqlInt((IF x[1] = "int" THEN x[2] ELSE 0) + n)))

\* $set: json_set(document, '$.k', ?)
SetDoc(doc, k, param) == DocOk(json_set(doc, k, param))

\* $push, first statement: json_set(document, '$.k', json_array())
PrepareDoc(doc, k) == DocOk(IF IsObj(doc) THEN SetKey(doc, k, Arr(<< >>)) ELSE doc)

\* $push, second statement:
\* json_set(document, '$.k[' || json_array_length(json_extract(document, '$.k')) || ']', ?)
\* appends to an array; leaves any other JSON value as it is; fails on a
\* string that is no JSON text.
PushDoc(doc, k, param) ==
  LET cur == GetKey(doc, k)
  IN IF ~IsObj(doc) THEN DocOk(doc)
     ELSE IF IsArr(cur) THEN DocOk(SetKey(doc, k, Arr(Append(cur[2], SqlToJson(param)))))
     ELSE IF cur[1] = "str" THEN DocErr(doc)
     ELSE DocOk(doc)

\* $pop 1:
\* json_remove(document, '$.k[' || (json_array_length(json_extract(document, '$.k')) - 1) || ']')
\* removes the last element of a non-empty array.  With nothing (or null)
\* at k the path is NULL and json_remove gives NULL: the document is lost.
\* With an empty array or a scalar the path ends in [-1], which is an error.
PopLastDoc(doc, k) ==
  LET cur == GetKey(doc, k)
  IN IF ~IsObj(doc) THEN DocOk(doc)
     ELSE IF cur[1] \in {"undefined", "null"} THEN DocOk(DocNull)
     ELSE IF IsArr(cur) /\ cur[2] /= << >>
     THEN DocOk(SetKey(doc, k, Arr(SubSeq(cur[2], 1, Len(cur[2]) - 1))))
     ELSE IF cur[1] = "strjson" /\ IsArr(cur[2]) /\ cur[2][2] /= << >> THEN DocOk(doc)
     ELSE DocErr(doc)

\* $pop -1: json_remove(document, '$.k[0]')
PopFirstDoc(doc, k) ==
  LET cur == GetKey(doc, k)
  IN IF IsObj(doc) /\ IsArr(cur) /\ cur[2] /= << >>
     THEN DocOk(SetKey(doc, k, Arr(Tail(cur[2]))))
     ELSE DocOk(doc)

\* replacement: document = json(?)
ReplaceDoc(doc, json) == DocOk(json)

\* A SET expression is [kind, k, param]; its value on a document
SetExpression(set, doc) ==
  CASE set.kind = "inc" -> IncDoc(doc, set.k, set.param)
    [] set.kind = "set" -> SetDoc(doc, set.k, set.param)
    [] set.kind = "prepare" -> PrepareDoc(doc, set.k)
    [] set.kind = "push" -> PushDoc(doc, set.k, set.param)
    [] set.kind = "pop" -> IF set.param = Num(1) THEN PopLastDoc(doc, set.k)
                           ELSE PopFirstDoc(doc, set.k)
    [] OTHER -> ReplaceDoc(doc, set.param)

\* UPDATE "C" SET document = <set expression> WHERE ...: the rows at the
\* positions in hit get their new document; the update trigger fires for
\* each, also when the document did not change.  The definitions follow
\* the SET expressions below.
RECURSIVE FireUpdate(_, _, _, _)
FireUpdate(side, rows, hit, i) ==
  IF i > Len(rows) THEN side
  ELSE FireUpdate(IF i \in hit
                  THEN UpdateTrigger(side, rows[i].id, rows[i].document)
                  ELSE side,
                  rows, hit, i + 1)
NewRows(rows, hit, set) ==
  [i \in DOMAIN rows |->
     IF i \in hit THEN [rows[i] EXCEPT !.document = SetExpression(set, @).doc]
     ELSE rows[i]]
ExecUpdate(db, hit, set) ==
  [db EXCEPT !.rows = NewRows(db.rows, hit, set),
             !.side = FireUpdate(db.side, NewRows(db.rows, hit, set), hit, 1)]


(***************************************************************************)
(* Collection operations.  h = [arrayIndexes, idField] is the handle: the  *)
(* set of paths in its arrayIndexes map and its identifier field.          *)
(***************************************************************************)
\* uuid.v4(): the n-th fresh identifier
Uuid(n) == Str(ToString(n))

\* Collection.insert: gives [db, err, doc], doc being the document handed
\* back, with the identifier set.
insert(db, doc, idField) ==
  LET fresh == ~Truthy(GetKey(doc, idField))
      id == IF fresh THEN Uuid(db.uuid + 1) ELSE GetKey(doc, idField)
      doc2 == SetKey(doc, idField, id)
      r == ExecInsert([db EXCEPT !.uuid = IF fresh THEN @ + 1 ELSE @],
                      id[2], strippedJSON(doc2, idField))
  IN [db |-> r.db, err |-> r.err, doc |-> doc2]

\* One UPDATE statement of Collection._update on the state st =
\* [db, err, keys, n]: args are bound by position, `start` of them before
\* the where fragment.  The where fragment is the query's own when there is
\* no join and no limit, and `_id IN (SELECT DISTINCT ... [LIMIT 1])`
\* otherwise; either way the statement changes the rows Select gives.
SetRows(st, hit, set) ==
  IF \E i \in hit : SetExpression(set, st.db.rows[i].document).err
  THEN [st EXCEPT !.err = "SQLITE_ERROR"]
  ELSE [st EXCEPT !.db = ExecUpdate(st.db, hit, set), !.n = @ + 1]
Statement(st, query, limit, args, start, set) ==
  IF StatementError(st.db, query, args, start)
  THEN [st EXCEPT !.err = "SQLITE_ERROR"]
  ELSE SetRows(st, Select(st.db, query, args, start, limit), set)

\* The first statement of $push:
\*   ... WHERE json_extract(document, '$.k') IS NULL <AND whereSQL>
\* When whereSQL is the query's own fragment the new condition is one more
\* atom in front of it; when it is the `_id IN (...)` wrapper the condition
\* filters the rows the wrapper selects.
IsNullAtom(k) == [t |-> "cmp", lhs |-> [kind |-> "json", name |-> k], up |-> "",
                  op |-> "IS", items |-> <<"NULL">>, operand |-> Null]
PrepareStatement(st, query, limit, k) ==
  LET wrapped == query.join /= << >> \/ limit
      q2 == IF wrapped THEN query
            ELSE [query EXCEPT !.sql = IF @ = << >> THEN <<IsNullAtom(k)>>
                                       ELSE <<IsNullAtom(k), AndToken>> \o @]
  IN IF StatementError(st.db, q2, query.values, 0)
     THEN [st EXCEPT !.err = "SQLITE_ERROR"]
     ELSE [st EXCEPT !.db = ExecUpdate(
                      st.db,
                      {i \in Select(st.db, q2, query.values, 0, limit) :
                         json_extract(st.db.rows[i].document, k) = SqlNull},
                      [kind |-> "prepare", k |-> k, param |-> Null]),
                    !.n = @ + 1]

NoOptions == [multi |-> FALSE, upsert |-> FALSE, justOne |-> FALSE]

RECURSIVE _update(_, _, _, _, _)
RECURSIVE IncClauses(_, _, _, _, _)
RECURSIVE SetClauses(_, _, _, _, _)
RECURSIVE AddToSetClauses(_, _, _, _, _, _)
RECURSIVE PushClauses(_, _, _, _, _)
RECURSIVE PopClauses(_, _, _, _, _)

\* The clause loops below walk Object.keys(clause) from position i; a
\* clause the update does not have is undefined and gives no statement.

\* if (update['$inc']) for (k of Object.keys(update['$inc'])) ...
IncClauses(st, query, limit, clause, i) ==
  IF ~IsObj(clause) \/ i > Len(clause[2]) \/ st.err /= NoErr THEN st
  ELSE LET k == clause[2][i][1]
           val == clause[2][i][2]
       IN IF TypeOf(val) /= "number"
          THEN [st EXCEPT !.err = "Can't increment by non-number type"]
          ELSE IncClauses(
                 [Statement(st, query, limit, <<val>> \o query.values, 1,
                            [kind |-> "inc", k |-> k, param |-> val[2]])
                    EXCEPT !.keys = @ \cup {k}],
                 query, limit, clause, i + 1)

\* if (update['$set']) ...
SetClauses(st, query, limit, clause, i) ==
  IF ~IsObj(clause) \/ i > Len(clause[2]) \/ st.err /= NoErr THEN st
  ELSE LET k == clause[2][i][1]
           val == clause[2][i][2]
           param == IF TypeOf(val) \in {"number", "string", "boolean"}
                    THEN bindParameter(val) ELSE SqlJson(val)
       IN IF k \in st.keys
          THEN [st EXCEPT !.err = "Can't apply multiple updates to single key"]
          ELSE SetClauses(
                 [Statement(st, query, limit, <<val>> \o query.values, 1,
                            [kind |-> "set", k |-> k, param |-> param])
                    EXCEPT !.keys = @ \cup {k}],
                 query, limit, clause, i + 1)

\* The outcome r of the inner _update of $addToSet, taken into the state
Merge(st, r, k) ==
  [db |-> r.db, err |-> r.err, keys |-> st.keys \cup {k}, n |-> st.n + r.n]

\* if (update['$addToSet']) ...: the same _update with the query extended by
\* {k: {$nin: [v]}} and the update {$push: {k: v}}, under the same options.
AddToSetClauses(st, q, options, h, clause, i) ==
  IF ~IsObj(clause) \/ i > Len(clause[2]) \/ st.err /= NoErr THEN st
  ELSE LET k == clause[2][i][1]
           val == clause[2][i][2]
           myQ == SetKey(q, k, Obj(<< <<"$nin", Arr(<<val>>)>> >>))
           updateSpec == Obj(<< <<"$push", Obj(<< <<k, val>> >>)>> >>)
       IN IF k \in st.keys
          THEN [st EXCEPT !.err = "Can't apply multiple updates to single key"]
          ELSE AddToSetClauses(
                 Merge(st, _update(st.db, myQ, updateSpec, options, h), k),
                 q, options, h, clause, i + 1)

\* The second statement of $push, when the first went through
PushStatement(s1, query, limit, k, val, param) ==
  IF s1.err /= NoErr THEN s1
  ELSE Statement(s1, query, limit, <<val>> \o query.values, 1,
                 [kind |-> "push", k |-> k, param |-> param])

\* if (update['$push']) ...
PushClauses(st, query, limit, clause, i) ==
  IF ~IsObj(clause) \/ i > Len(clause[2]) \/ st.err /= NoErr THEN st
  ELSE LET k == clause[2][i][1]
           val == clause[2][i][2]
           param == IF TypeOf(val) \in {"number", "string"}
                    THEN bindParameter(val) ELSE SqlJson(val)
       IN IF k \in st.keys
          THEN [st EXCEPT !.err = "Can't apply multiple updates to single key"]
          ELSE PushClauses(
                 [PushStatement(PrepareStatement(st, query, limit, k),
                                query, limit, k, val, param)
                    EXCEPT !.keys = @ \cup {k}],
                 query, limit, clause, i + 1)

\* if (update['$pop']) ...
PopClauses(st, query, limit, clause, i) ==
  IF ~IsObj(clause) \/ i > Len(clause[2]) \/ st.err /= NoErr THEN st
  ELSE LET k == clause[2][i][1]
           val == clause[2][i][2]
       IN IF k \in st.keys
          THEN [st EXCEPT !.err = "Can't apply multiple updates to single key"]
          ELSE IF val \notin {Num(1), Num(-1)}
          THEN [st EXCEPT !.err = "Incorrect argument to $pop"]
          ELSE PopClauses(
                 [Statement(st, query, limit, query.values, 0,
                            [kind |-> "pop", k |-> k, param |-> val])
                    EXCEPT !.keys = @ \cup {k}],
                 query, limit, clause, i + 1)

\* What _update hands back: [db, err, n], n being the number of statements
\* that ran.
Out(st) == [db |-> st.db, err |-> st.err, n |-> st.n]

\* The clauses in the order _update takes them: $inc, $set, $addToSet,
\* $push, $pop.
\* The clauses with $set starting from an empty set of keys: it does not
\* see the keys $inc has updated.
ClausesForgetKeys(st0, q, query, limit, update, options, h) ==
  PopClauses(
    PushClauses(
      AddToSetClauses(
        SetClauses(
          [IncClauses(st0, query, limit, GetKey(update, "$inc"), 1) EXCEPT !.keys = {}],
          query, limit, GetKey(update, "$set"), 1),
        q, options, h, GetKey(update, "$addToSet"), 1),
      query, limit, GetKey(update, "$push"), 1),
    query, limit, GetKey(update, "$pop"), 1)
Clauses(st0, q, query, limit, update, options, h) ==
  PopClauses(
    PushClauses(
      AddToSetClauses(
        SetClauses(
          IncClauses(st0, query, limit, GetKey(update, "$inc"), 1),
          query, limit, GetKey(update, "$set"), 1),
        q, options, h, GetKey(update, "$addToSet"), 1),
      query, limit, GetKey(update, "$push"), 1),
    query, limit, GetKey(update, "$pop"), 1)

\* After the clauses: the replacement statement when the update has no
\* clause, the error when no clause gave a key.
Replacement(s5, query, limit, update, h) ==
  IF s5.err /= NoErr THEN Out(s5)
  ELSE IF ~containsClauses(update)
  THEN Out(Statement(s5, query, limit, <<StrJson(update)>> \o query.values, 1,
                     [kind |-> "replace", k |-> "",
                      param |-> strippedJSON(update, h.idField)]))
  ELSE IF s5.keys = {}
  THEN [db |-> s5.db, err |-> "Couldn't create update for field", n |-> s5.n]
  ELSE Out(s5)

\* The upsert branch when no row matches.  Without clauses the update
\* itself is inserted, under the identifier of the update or else of q.
UpsertDoc(q, update, idField) ==
  IF ~Truthy(GetKey(update, idField)) /\ Truthy(GetKey(q, idField))
  THEN SetKey(update, idField, GetKey(q, idField))
  ELSE update
Inserted(r) == [db |-> r.db, err |-> r.err, n |-> 1]
\* With clauses filterClauses(q) is inserted and the update is applied to
\* the inserted document, without options.
InsertThenUpdate(r, update, h) ==
  IF r.err /= NoErr THEN Inserted(r)
  ELSE [_update(r.db, r.doc, update, NoOptions, h) EXCEPT !.n = @ + 1]

\* Collection._update after `const query = this.queryFor(q)`
CompiledUpdate(db, q, query, limit, update, options, h) ==
  IF query.err THEN [db |-> db, err |-> "QueryError", n |-> 0]
  ELSE IF update /= Str("DELETE") /\ options.upsert
          /\ StatementError(db, query, query.values, 0)
  THEN [db |-> db, err |-> "SQLITE_ERROR", n |-> 0]
  ELSE IF update /= Str("DELETE") /\ options.upsert
          /\ Select(db, query, query.values, 0, TRUE) = {}
  THEN IF ~containsClauses(update)
       THEN Inserted(insert(db, UpsertDoc(q, update, h.idField), h.idField))
       ELSE InsertThenUpdate(insert(db, filterClauses(q), h.idField), update, h)
  ELSE IF update = Str("DELETE")
  THEN IF StatementError(db, query, query.values, 0)
       THEN [db |-> db, err |-> "SQLITE_ERROR", n |-> 0]
       ELSE [db |-> ExecDelete(db, Select(db, query, query.values, 0, limit)),
             err |-> NoErr, n |-> 1]
  ELSE Replacement(
         Clauses([db |-> db, err |-> NoErr, keys |-> {}, n |-> 0],
                 q, query, limit, update, options, h),
         query, limit, update, h)

\* Collection._update(q, update, options); update is Str("DELETE") for a
\* delete.  A delete is limited by justOne, an update unless multi.
_update(db, q, update, options, h) ==
  CompiledUpdate(db, q, Query(q, h.arrayIndexes, h.idField),
                 IF update = Str("DELETE") THEN options.justOne ELSE ~options.multi,
                 update, options, h)


\* Store.withinTransaction: commit when the callback resolved, rollback
\* when it rejected.  `before` is the database at BEGIN, r the callback's
\* outcome.  The identifiers uuid.v4() handed out are not given back.
\* A transaction that commits whatever the callback's outcome.
withinTransactionAlwaysCommits(before, r) == r.db
withinTransaction(before, r) ==
  IF r.err = NoErr THEN r.db ELSE [before EXCEPT !.uuid = r.db.uuid]

\* _find's populate: JSON.parse(document) || {}, then the identifier under
\* idField
populate(row, idField) ==
  SetKey(IF IsObj(row.document) THEN row.document ELSE Obj(<< >>), idField, Str(row.id))

\* Collection.find(q, limit): [docs, err]; limit 0 stands for no limit.
Ordered(db, all) == SelectSeq([i \in DOMAIN db.rows |-> i], LAMBDA i : i \in all)
Cut(ordered, limit) ==
  IF limit > 0 /\ Len(ordered) > limit THEN SubSeq(ordered, 1, limit) ELSE ordered
Populated(db, cut, idField) ==
  [i \in DOMAIN cut |-> populate(db.rows[cut[i]], idField)]
_find(db, q, query, limit, h) ==
  IF IsObj(q) /\ q[2] /= << >> /\ StatementError(db, query, query.values, 0)
  THEN [docs |-> << >>, err |-> IF query.err THEN "QueryError" ELSE "SQLITE_ERROR"]
  ELSE [docs |-> Populated(db,
                           Cut(Ordered(db, IF IsObj(q) /\ q[2] /= << >>
                                           THEN Select(db, query, query.values, 0, FALSE)
                                           ELSE DOMAIN db.rows),
                               limit),
                           h.idField),
        err |-> NoErr]
find(db, q, limit, h) == _find(db, q, Query(q, h.arrayIndexes, h.idField), limit, h)

\* Collection.count(q): [n, err].  SELECT COUNT(*) from "C" <joins> WHERE ...
\* counts the rows of the join: for each row of the collection, one per
\* choice of a row from every join that satisfies the where fragment.
Widest(db, joins, row) ==
  CHOOSE n \in {Len(JoinValues(db, joins[j], row)) : j \in DOMAIN joins} \cup {0} :
    \A j \in DOMAIN joins : Len(JoinValues(db, joins[j], row)) <= n
CountRows(db, query) ==
  Cardinality(UNION {
    { <<i, pos>> :
        pos \in { p \in [DOMAIN query.join -> 1..Widest(db, query.join, db.rows[i])] :
                   /\ \A j \in DOMAIN query.join :
                        p[j] <= Len(JoinValues(db, query.join[j], db.rows[i]))
                   /\ EvalWhere(db, db.rows[i], query.sql, query.values, 0,
                        [a \in {query.join[j].field : j \in DOMAIN query.join} |->
                           JoinValues(db,
                             query.join[CHOOSE j \in DOMAIN query.join :
                                          query.join[j].field = a],
                             db.rows[i])[p[CHOOSE j \in DOMAIN query.join :
                                             query.join[j].field = a]]]) } } :
    i \in DOMAIN db.rows })
_count(db, q, query) ==
  IF ~(IsObj(q) /\ q[2] /= << >>) THEN [n |-> Len(db.rows), err |-> NoErr]
  ELSE IF StatementError(db, query, query.values, 0)
  THEN [n |-> 0, err |-> IF query.err THEN "QueryError" ELSE "SQLITE_ERROR"]
  ELSE [n |-> CountRows(db, query), err |-> NoErr]
count(db, q, h) == _count(db, q, Query(q, h.arrayIndexes, h.idField))

\* Collection.findOne(q): the first document of find(q, 1), or null
First(r) == IF r.err = NoErr /\ r.docs /= << >> THEN r.docs[1] ELSE Null
findOne(db, q, h) == First(find(db, q, 1, h))

\* Collection.insertMany: the inserts of one transaction, in order
RECURSIVE insertAll(_, _, _)
RECURSIVE insertNext(_, _, _)
insertAll(db, data, idField) ==
  IF data = << >> THEN [db |-> db, err |-> NoErr]
  ELSE insertNext(insert(db, Head(data), idField), Tail(data), idField)
insertNext(r, rest, idField) ==
  IF r.err /= NoErr THEN [db |-> r.db, err |-> r.err]
  ELSE insertAll(r.db, rest, idField)

\* Collection._ensureArrayIndex(key): nothing when the handle's map has the
\* key; else CREATE TABLE IF NOT EXISTS "C_key" AS SELECT _id, json_each.*
\* FROM "C", json_each(document, '$.key') and the three triggers.
_ensureArrayIndex(db, key, h) ==
  IF key \in h.arrayIndexes \/ key \in DOMAIN db.side THEN db
  ELSE [db EXCEPT !.side =
          [p \in DOMAIN db.side \cup {key} |->
             IF p = key
             THEN Flatten([i \in DOMAIN db.rows |->
                    [j \in DOMAIN json_each_path(db.rows[i].document, key) |->
                       <<db.rows[i].id, json_each_path(db.rows[i].document, key)[j]>>]])
             ELSE db.side[p]]]


\* Object literals and option records of the calls
O1(k, v) == Obj(<< <<k, v>> >>)
O2(k1, v1, k2, v2) == Obj(<< <<k1, v1>>, <<k2, v2>> >>)
O3(k1, v1, k2, v2, k3, v3) == Obj(<< <<k1, v1>>, <<k2, v2>>, <<k3, v3>> >>)
Opt(multi, upsert) == [multi |-> multi, upsert |-> upsert, justOne |-> FALSE]
JustOne(b) == [multi |-> FALSE, upsert |-> FALSE, justOne |-> b]

(***************************************************************************)
(* The metadata collection "dinky_metadata": one record per collection,    *)
(* {_id: name, idField, arrayIndexes}.  It is a collection like any other, *)
(* with identifier field "_id" and no array index.                         *)
(***************************************************************************)
CollectionName == "C"
MetaHandle == [arrayIndexes |-> {}, idField |-> "_id"]

\* const tableName = `${this.name}_${key}`
IndexTable(key) == CollectionName \o "_" \o key

\* {keyPath: key, indexTable: tableName}, the entry _ensureArrayIndex pushes
IndexEntry(key) == O2("keyPath", Str(key), "indexTable", Str(IndexTable(key)))

\* metadata.update({_id: this.name}, {$push: {arrayIndexes: entry}}), in
\* the transaction Collection.update opens: [db, err, n]
PushEntry(metadata, key) ==
  _update(metadata, O1("_id", Str(CollectionName)),
          O1("$push", O1("arrayIndexes", IndexEntry(key))), NoOptions, MetaHandle)

\* Map.set(k, v) on a map held as a set of <<key, value>> pairs
MapSet(map, k, v) == {e \in map : e[1] /= k} \cup {<<k, v>>}

\* Collection.refreshArrayIndexes(arrayIndexes): for each index of
\* (arrayIndexes || []), map.set(index.keypath, index.indexTable)
RECURSIVE refreshArrayIndexes(_, _, _)
refreshArrayIndexes(map, list, i) ==
  IF ~IsArr(list) \/ i > Len(list[2]) THEN map
  ELSE refreshArrayIndexes(
         MapSet(map, GetKey(list[2][i], "keypath"), GetKey(list[2][i], "indexTable")),
         list, i + 1)

\* Collection.initialize() of a handle opened with getCollection(name,
\* idField), on the metadata table: the record is read, inserted when
\* absent, its idField set, and the handle's map loaded from the
\* arrayIndexes of the record that was read.  An idField of "" is the
\* argument left out (undefined, which `if (this.idField)` treats alike).
MetaRecord == O2("_id", Str(CollectionName), "idField", Str("_id"))
InitInsert(metadata, found) ==
  IF found = Null THEN insert(metadata, MetaRecord, "_id").db ELSE metadata
InitRecord(found) == IF found = Null THEN MetaRecord ELSE found
SetIdFieldKeeps(metadata, idField) == metadata
SetIdField(metadata, idField) ==
  withinTransaction(metadata,
    _update(metadata, O1("_id", Str(CollectionName)),
            O1("$set", O1("idField", Str(idField))), Opt(FALSE, TRUE), MetaHandle))
StoredIdField(record) ==
  IF Truthy(GetKey(record, "idField")) THEN GetKey(record, "idField")[2] ELSE "_id"
InitWith(metadata, idField, found) ==
  [metadata |-> IF idField /= "" THEN SetIdField(InitInsert(metadata, found), idField)
                ELSE withinTransaction(metadata,
                       [db |-> InitInsert(metadata, found), err |-> NoErr]),
   idField |-> IF idField /= "" THEN idField ELSE StoredIdField(InitRecord(found)),
   arrayIndexes |-> refreshArrayIndexes({}, GetKey(InitRecord(found), "arrayIndexes"), 1)]
initialize(metadata, idField) ==
  InitWith(metadata, idField, findOne(metadata, O1("_id", Str(CollectionName)), MetaHandle))


(***************************************************************************)
(* The state machine: one Store with one open Collection handle.           *)
(***************************************************************************)
VARIABLES
  db,            \* the committed database [rows, side, uuid]
  arrayIndexes,  \* the handle's arrayIndexes map: the set of its keys
  idField,       \* the handle's idField
  last,          \* the last call: its arguments, the database before it, its outcome
  nops,          \* the number of calls made
  metadata,      \* the committed metadata table [rows, side, uuid]
  tx,            \* the ensureArrayIndex in progress: [pc, key, db, metadata]
  opened,        \* a handle opened later with getCollection:
                 \* [open, arrayIndexes, idField, given, status, pc]; given is
                 \* the idField last persisted by getCollection, "" when none
                 \* ever was; pc is "running" while its initialize() is
  stack          \* the open Store.withinTransaction calls, outermost first: [work, err]

vars == <<db, arrayIndexes, idField, last, nops, metadata, tx, opened, stack>>

\* Bounds
MaxOps == 3

Handle == [arrayIndexes |-> arrayIndexes, idField |-> idField]


\* The identifier-field names a handle is opened with
IdFields == {"_id", "id"}

\* The documents the caller inserts or saves
InsertDocs ==
  { O2("a", Num(1), "k", Arr(<<Num(0)>>)),
    O1("a", Num(1)),
    O2("a", Num(3), "k", Num(5)),
    O3(idField, Str("x"), "a", Num(2), "b", O1(idField, Num(1))),
    O3("_id", Str("y"), "id", Str("y"), "k", Arr(<<Num(1), Num(2)>>)) }

InsertManyLists ==
  { << O2("a", Num(1), "k", Arr(<<Num(0)>>)), O1("a", Num(1)) >>,
    << O2(idField, Str("x"), "a", Num(1)), O2(idField, Str("x"), "a", Num(2)) >> }

SaveDocs ==
  { O2(idField, Str("x"), "a", Num(1)),
    O1("b", Num(3)) }

\* The update calls <<q, update, options>>
UpdateCalls ==
  { <<O1("a", Num(1)), O1("$set", O2("a", Num(2), "b", Num(3))), Opt(FALSE, FALSE)>>,
    <<O1("a", Num(1)), O1("$addToSet", O1("k", Num(0))), Opt(FALSE, FALSE)>>,
    <<O1("a", Num(1)), O1("$addToSet", O1("k", Num(1))), Opt(FALSE, TRUE)>>,
    <<O1("a", Num(1)), O1("$addToSet", O1("k", Num(2))), Opt(TRUE, FALSE)>>,
    <<O1("a", Num(1)), O2("$set", O1("b", Num(3)), "$inc", O1("b", Num(1))), Opt(FALSE, FALSE)>>,
    <<O1("a", Num(1)), O1("$inc", O2("a", Num(1), "b", Str("x"))), Opt(TRUE, FALSE)>>,
    <<Obj(<< >>), O2("$push", O1("k", Num(2)), "$pop", O1("a", Num(2))), Opt(TRUE, FALSE)>>,
    <<O1("a", Num(3)), O2("a", Num(1), "b", Num(2)), Opt(FALSE, TRUE)>>,
    <<O1("a", Num(2)), O1("$set", O1("_id", Str("z"))), Opt(FALSE, FALSE)>>,
    <<O1("a", Num(1)), O1("$pop", O1("k", Num(1))), Opt(TRUE, FALSE)>>,
    <<O1("b", O1("$lt", Num(1))), O1("$set", O1("c", Num(1))), Opt(FALSE, TRUE)>> }

\* The delete calls <<q, options>>
DeleteCalls ==
  { <<O1("a", Num(1)), JustOne(TRUE)>>,
    <<O1("a", Num(1)), JustOne(FALSE)>> }

\* The queries the caller finds with
FindQueries ==
  { O1("k", Null),
    O2("k", Null, "a", Num(1)),
    O2("a", Num(1), "k", Null),
    O2("a", Num(1), "$or", Arr(<<O1("b", Num(3)), O1("a", Num(2))>>)),
    O1("$and", Arr(<<O1("$or", Arr(<<O1("a", Num(1)), O1("a", Num(2))>>)),
                     O1("b", Num(3))>>)),
    O1("$or", Arr(<<O1("a", Num(2)), O1("b", Num(3))>>)),
    O1("k", O1("$in", Arr(<<Num(0), Num(1)>>))),
    O1("k", O1("$in", Arr(<<Num(1), Null>>))),
    O1(idField, Str("x")) }

IndexPaths == {"k"}

\* A database without rows; no ensureArrayIndex in progress
EmptyDb == [rows |-> << >>, side |-> << >>, uuid |-> 0]
NoTx == [pc |-> "idle", key |-> "", db |-> EmptyDb, metadata |-> EmptyDb, err |-> NoErr]

NoCall ==
  [op |-> "open", q |-> Undefined, update |-> Undefined, options |-> NoOptions,
   doc |-> Undefined, err |-> NoErr, n |-> 0, before |-> db, found |-> << >>]

Init ==
  /\ db = [rows |-> << >>, side |-> << >>, uuid |-> 0]
  /\ arrayIndexes = {}
  /\ nops = 0
  /\ last = [op |-> "open", q |-> Undefined, update |-> Undefined,
             options |-> NoOptions, doc |-> Undefined, err |-> NoErr, n |-> 0,
             before |-> [rows |-> << >>, side |-> << >>, uuid |-> 0],
             found |-> << >>]
  /\ \E given \in IdFields \cup {""} :
       /\ idField = initialize(EmptyDb, given).idField
       /\ metadata = initialize(EmptyDb, given).metadata
       /\ opened = [open |-> FALSE, arrayIndexes |-> {}, idField |-> "",
                    given |-> given, status |-> "uninitialized", pc |-> "idle"]
  /\ tx = NoTx
  /\ stack = << >>

\* Collection.insert(doc), on the main handle
Insert(doc) ==
  /\ nops < MaxOps
  /\ \E r \in {insert(db, doc, idField)} :
       /\ db' = r.db
       /\ last' = [NoCall EXCEPT !.op = "insert", !.q = doc, !.doc = r.doc,
                                 !.err = r.err, !.n = 1]
  /\ nops' = nops + 1
  /\ UNCHANGED <<arrayIndexes, idField, metadata, tx, opened, stack>>

\* Collection.insertMany(data)
InsertMany(data) ==
  /\ nops < MaxOps
  /\ \E r \in {insertAll(db, data, idField)} :
       /\ db' = withinTransaction(db, r)
       /\ last' = [NoCall EXCEPT !.op = "insertMany", !.err = r.err, !.n = Len(data)]
  /\ nops' = nops + 1
  /\ UNCHANGED <<arrayIndexes, idField, metadata, tx, opened, stack>>

\* Collection.update(q, update, options)
Update(q, update, options) ==
  /\ nops < MaxOps
  /\ \E r \in {_update(db, q, update, options, Handle)} :
       /\ db' = withinTransaction(db, r)
       /\ last' = [NoCall EXCEPT !.op = "update", !.q = q, !.update = update,
                                 !.options = options, !.err = r.err, !.n = r.n]
  /\ nops' = nops + 1
  /\ UNCHANGED <<arrayIndexes, idField, metadata, tx, opened, stack>>

\* Collection.delete(q, options)
Delete(q, options) ==
  /\ nops < MaxOps
  /\ \E r \in {_update(db, q, Str("DELETE"), options, Handle)} :
       /\ db' = withinTransaction(db, r)
       /\ last' = [NoCall EXCEPT !.op = "delete", !.q = q, !.options = options,
                                 !.err = r.err, !.n = r.n]
  /\ nops' = nops + 1
  /\ UNCHANGED <<arrayIndexes, idField, metadata, tx, opened, stack>>

\* Collection.save(doc): update({idField: id}, doc, {upsert: true}) and a
\* findOne when the document has an identifier, insert otherwise
Save(doc) ==
  /\ nops < MaxOps
  /\ IF Truthy(GetKey(doc, idField))
     THEN \E r \in {_update(db, O1(idField, GetKey(doc, idField)), doc,
                            Opt(FALSE, TRUE), Handle)} :
            /\ db' = withinTransaction(db, r)
            /\ last' = [NoCall EXCEPT !.op = "save", !.q = doc, !.err = r.err,
                                      !.n = r.n,
                                      !.doc = IF r.err = NoErr
                                              THEN findOne(r.db,
                                                           O1(idField, GetKey(doc, idField)),
                                                           Handle)
                                              ELSE Undefined]
     ELSE \E r \in {insert(db, doc, idField)} :
            /\ db' = r.db
            /\ last' = [NoCall EXCEPT !.op = "save", !.q = doc, !.doc = r.doc,
                                      !.err = r.err, !.n = 1]
  /\ nops' = nops + 1
  /\ UNCHANGED <<arrayIndexes, idField, metadata, tx, opened, stack>>

\* Collection.ensureArrayIndex(key), every statement and the commit
\* succeeding
EnsureArrayIndex(key) ==
  /\ nops < MaxOps
  /\ db' = _ensureArrayIndex(db, key, Handle)
  /\ metadata' = IF key \in arrayIndexes THEN metadata
                 ELSE withinTransaction(metadata, PushEntry(metadata, key))
  /\ arrayIndexes' = arrayIndexes \cup {key}
  /\ last' = [NoCall EXCEPT !.op = "ensureArrayIndex", !.q = Str(key)]
  /\ nops' = nops + 1
  /\ UNCHANGED <<idField, tx, opened, stack>>

\* Collection.find(q)
Find(q) ==
  /\ nops < MaxOps
  /\ \E r \in {find(db, q, 0, Handle)} :
       last' = [NoCall EXCEPT !.op = "find", !.q = q, !.err = r.err,
                              !.found = r.docs]
  /\ nops' = nops + 1
  /\ UNCHANGED <<db, arrayIndexes, idField, metadata, tx, opened, stack>>

Next ==
  \/ \E doc \in InsertDocs : Insert(doc)
  \/ \E data \in InsertManyLists : InsertMany(data)
  \/ \E c \in UpdateCalls : Update(c[1], c[2], c[3])
  \/ \E c \in DeleteCalls : Delete(c[1], c[2])
  \/ \E doc \in SaveDocs : Save(doc)
  \/ \E key \in IndexPaths : EnsureArrayIndex(key)
  \/ \E q \in FindQueries : Find(q)

Spec == Init /\ [][Next]_vars


(***************************************************************************)
(* ensureArrayIndex step by step.  Each await of the call is a step, the   *)
(* backend may reject a statement or the commit, and finds and opens of    *)
(* other handles run between the steps.  tx.db and tx.metadata are the     *)
(* tables as the transaction sees them, db and metadata the committed      *)
(* ones.                                                                   *)
(***************************************************************************)
\* What the backend answers to a statement or a commit
Failures == {NoErr, "SQLITE_BUSY"}

\* The queries found with while an index is built
IndexQueries ==
  { O1("k", O1("$in", Arr(<<Num(1)>>))),
    O1("k", O1("$nin", Arr(<<Num(1)>>))),
    O1("k", O1("$in", Arr(<<Num(1), Num(2)>>))),
    O1("$or", Arr(<<O1("k", O1("$in", Arr(<<Num(1)>>))), O1("a", Num(2))>>)),
    O1("$and", Arr(<<O1("k", O1("$in", Arr(<<Num(1)>>))), O1("a", Num(1))>>)),
    O1("a", O1("$exists", Bool(TRUE))),
    O1("a", O1("$lt", Arr(<<Num(1), Num(2)>>))) }

\* Store.withinTransaction: await this.handle.beginTransaction(to)
BeginEnsure(key) ==
  /\ nops < MaxOps
  /\ tx.pc = "idle"
  /\ tx' = [NoTx EXCEPT !.pc = "begun", !.key = key, !.db = db, !.metadata = metadata]
  /\ nops' = nops + 1
  /\ UNCHANGED <<db, arrayIndexes, idField, last, metadata, opened, stack>>

\* _ensureArrayIndex: nothing when the map has the key, else the side
\* table, its index and its triggers
CreateIndex(fail) ==
  /\ tx.pc = "begun"
  /\ tx' = IF tx.key \in arrayIndexes THEN [tx EXCEPT !.pc = "done"]
           ELSE IF fail /= NoErr THEN [tx EXCEPT !.pc = "failed", !.err = fail]
           ELSE [tx EXCEPT !.pc = "created",
                           !.db = _ensureArrayIndex(tx.db, tx.key, Handle)]
  /\ UNCHANGED <<db, arrayIndexes, idField, last, nops, metadata, opened, stack>>

\* _ensureArrayIndex: the metadata $push, then this.arrayIndexes.set(key,
\* tableName) on the map the transaction's collection shares with the
\* handle; the callback of ensureArrayIndex sets the same entry again.
PushMetadata(fail) ==
  /\ tx.pc = "created"
  /\ \E r \in {PushEntry(tx.metadata, tx.key)} :
       IF fail /= NoErr \/ r.err /= NoErr
       THEN /\ tx' = [tx EXCEPT !.pc = "failed",
                                !.err = IF fail /= NoErr THEN fail ELSE r.err]
            /\ UNCHANGED arrayIndexes
       ELSE /\ tx' = [tx EXCEPT !.pc = "done", !.metadata = r.db]
            /\ arrayIndexes' = arrayIndexes \cup {tx.key}
  /\ UNCHANGED <<db, idField, last, nops, metadata, opened, stack>>

\* Store.withinTransaction: transaction.commit() after the callback
\* resolved.  A commit the backend rejects commits nothing, and its
\* rejection is what the caller gets.
Commit(fail) ==
  /\ tx.pc = "done"
  /\ IF fail = NoErr
     THEN db' = tx.db /\ metadata' = tx.metadata
     ELSE UNCHANGED <<db, metadata>>
  /\ tx' = NoTx
  /\ last' = [NoCall EXCEPT !.op = "ensureArrayIndex", !.q = Str(tx.key), !.err = fail]
  /\ UNCHANGED <<arrayIndexes, idField, nops, opened, stack>>

\* Store.withinTransaction: transaction.rollback() after the callback
\* rejected, then the error is thrown
Rollback ==
  /\ tx.pc = "failed"
  /\ tx' = NoTx
  /\ last' = [NoCall EXCEPT !.op = "ensureArrayIndex", !.q = Str(tx.key), !.err = tx.err]
  /\ UNCHANGED <<db, arrayIndexes, idField, nops, metadata, opened, stack>>

\* Collection.find(q) on the handle, between two steps or after them.  The
\* query is compiled against the handle's map as it is now; the statement
\* reads the committed tables or, while the transaction is open, the
\* tables as the transaction sees them (the backend's handle decides).
FindDuring(q) ==
  /\ nops < MaxOps
  /\ \E view \in {db} \cup (IF tx.pc = "idle" THEN {} ELSE {tx.db}) :
       \E r \in {find(view, q, 0, Handle)} :
         last' = [NoCall EXCEPT !.op = "find", !.q = q, !.err = r.err,
                                !.found = r.docs]
  /\ nops' = nops + 1
  /\ UNCHANGED <<db, arrayIndexes, idField, metadata, tx, opened, stack>>

\* Store.getCollection("C", given), or getCollection("C") when given is
\* "": a new handle, initialized from the committed metadata record
GetCollection(given) ==
  /\ nops < MaxOps
  /\ tx.pc = "idle"
  /\ opened.pc = "idle"
  /\ \E r \in {initialize(metadata, given)} :
       /\ metadata' = r.metadata
       /\ opened' = [open |-> TRUE, arrayIndexes |-> r.arrayIndexes,
                     idField |-> r.idField,
                     given |-> IF given /= "" THEN given ELSE opened.given,
                     status |-> "initialized", pc |-> "idle"]
  /\ last' = [NoCall EXCEPT !.op = "getCollection",
                            !.q = IF given = "" THEN Undefined ELSE Str(given)]
  /\ nops' = nops + 1
  /\ UNCHANGED <<db, arrayIndexes, idField, tx, stack>>

\* new Collection(store, "C", given).initialize(), up to its first await:
\* the status goes from uninitialized to initializing
InitializeBegin(given) ==
  /\ nops < MaxOps
  /\ tx.pc = "idle"
  /\ opened.pc = "idle"
  /\ opened' = [open |-> FALSE, arrayIndexes |-> {}, idField |-> given,
                given |-> opened.given, status |-> "initializing", pc |-> "running"]
  /\ last' = [NoCall EXCEPT !.op = "new Collection",
                            !.q = IF given = "" THEN Undefined ELSE Str(given)]
  /\ nops' = nops + 1
  /\ UNCHANGED <<db, arrayIndexes, idField, metadata, tx, stack>>

\* The rest of that initialize(): CREATE TABLE IF NOT EXISTS and the
\* metadata transaction.  When the backend rejects one of them the call
\* rejects and the status stays initializing.
InitializeEnd(fail) ==
  /\ opened.pc = "running"
  /\ tx.pc = "idle"
  /\ IF fail /= NoErr
     THEN /\ opened' = [opened EXCEPT !.pc = "idle"]
          /\ UNCHANGED metadata
     ELSE \E r \in {initialize(metadata, opened.idField)} :
            /\ metadata' = r.metadata
            /\ opened' = [open |-> TRUE, arrayIndexes |-> r.arrayIndexes,
                          idField |-> r.idField,
                          given |-> IF opened.idField /= "" THEN opened.idField
                                    ELSE opened.given,
                          status |-> "initialized", pc |-> "idle"]
  /\ last' = [NoCall EXCEPT !.op = "initialize", !.err = fail]
  /\ UNCHANGED <<db, arrayIndexes, idField, nops, tx, stack>>

\* One more initialize() on that instance: the status is no longer
\* uninitialized, so the call skips the body and returns this
InitializeAgain ==
  /\ nops < MaxOps
  /\ opened.status /= "uninitialized"
  /\ last' = [NoCall EXCEPT !.op = "initialize"]
  /\ nops' = nops + 1
  /\ UNCHANGED <<db, arrayIndexes, idField, metadata, tx, opened, stack>>

\* An assignment to the public field idField of the main handle: the
\* field is plain data, the assignment runs no code of the Collection
AssignIdField(name) ==
  /\ nops < MaxOps
  /\ name /= idField
  /\ idField' = name
  /\ last' = [NoCall EXCEPT !.op = "idField", !.q = Str(name)]
  /\ nops' = nops + 1
  /\ UNCHANGED <<db, arrayIndexes, metadata, tx, opened, stack>>

\* Inserts run between the calls of ensureArrayIndex
InsertIdle(doc) == tx.pc = "idle" /\ Insert(doc)

NextIndex ==
  \/ \E doc \in InsertDocs : InsertIdle(doc)
  \/ \E key \in IndexPaths : BeginEnsure(key)
  \/ \E fail \in Failures : CreateIndex(fail)
  \/ \E fail \in Failures : PushMetadata(fail)
  \/ \E fail \in Failures : Commit(fail)
  \/ Rollback
  \/ \E q \in IndexQueries : FindDuring(q)
  \/ \E given \in IdFields \cup {""} : GetCollection(given)
  \/ \E name \in IdFields : AssignIdField(name)
  \/ \E given \in IdFields \cup {""} : InitializeBegin(given)
  \/ \E fail \in Failures : InitializeEnd(fail)
  \/ InitializeAgain

SpecIndex == Init /\ [][NextIndex]_vars


(***************************************************************************)
(* Store.withinTransaction, nested.  Each open call is a frame of the      *)
(* stack: work is the database as its callback sees it, err the error its  *)
(* callback rejects with.  The outermost call is a transaction, a call     *)
(* made through the Store of a callback a savepoint in it.                 *)
(***************************************************************************)
MaxDepth == 2

\* The database a new transaction starts from, and the one its end is
\* seen in: the enclosing callback's, or the committed one
Enclosing(frames) == IF frames = << >> THEN db ELSE frames[Len(frames)].work

\* await this.handle.beginTransaction(to), then fn(s)
TxBegin ==
  /\ Len(stack) < MaxDepth
  /\ stack' = Append(stack, [work |-> Enclosing(stack), err |-> NoErr])
  /\ UNCHANGED <<db, arrayIndexes, idField, last, nops, metadata, tx, opened>>

\* The callback inserts through its Store; when the insert is rejected the
\* callback rejects with that error
TxInsert(doc) ==
  /\ nops < MaxOps
  /\ stack /= << >>
  /\ stack[Len(stack)].err = NoErr
  /\ \E r \in {insert(stack[Len(stack)].work, doc, idField)} :
       stack' = [stack EXCEPT ![Len(stack)] = [work |-> r.db, err |-> r.err]]
  /\ nops' = nops + 1
  /\ UNCHANGED <<db, arrayIndexes, idField, last, metadata, tx, opened>>

\* The callback rejects with an error of its own
TxThrow ==
  /\ stack /= << >>
  /\ stack[Len(stack)].err = NoErr
  /\ stack' = [stack EXCEPT ![Len(stack)].err = "Error"]
  /\ UNCHANGED <<db, arrayIndexes, idField, last, nops, metadata, tx, opened>>

\* fn(s).then(commit, error => rollback().then(() => { throw error; })).
\* The enclosing callback, when there is one, catches the error or rejects
\* with it.
TxEnd(caught) ==
  /\ stack /= << >>
  /\ \E r \in {withinTransaction(Enclosing(SubSeq(stack, 1, Len(stack) - 1)),
                                 [db |-> stack[Len(stack)].work,
                                  err |-> stack[Len(stack)].err])} :
       IF Len(stack) = 1
       THEN /\ db' = r
            /\ stack' = << >>
       ELSE /\ stack' = [SubSeq(stack, 1, Len(stack) - 1) EXCEPT ![Len(stack) - 1] =
                           [work |-> r,
                            err |-> IF caught THEN NoErr ELSE stack[Len(stack)].err]]
            /\ UNCHANGED db
  /\ last' = [NoCall EXCEPT !.op = "withinTransaction", !.n = Len(stack),
                            !.err = stack[Len(stack)].err,
                            !.before = Enclosing(SubSeq(stack, 1, Len(stack) - 1))]
  /\ UNCHANGED <<arrayIndexes, idField, nops, metadata, tx, opened>>

NextTx ==
  \/ TxBegin
  \/ \E doc \in SaveDocs : TxInsert(doc)
  \/ TxThrow
  \/ \E caught \in BOOLEAN : TxEnd(caught)

SpecTx == Init /\ [][NextTx]_vars


(***************************************************************************)
(* The calls on one handle again, made with documents that hold text at an *)
(* indexed path, update documents that name unsupported operators or name  *)
(* one key under two operators, replacements by identifier, and deletes by *)
(* array containment.                                                      *)
(***************************************************************************)
CallDocs ==
  { O2("a", Num(1), "k", Arr(<<Num(0)>>)),
    O2("a", Num(1), "k", Arr(<<Num(1), Num(2)>>)),
    O1("k", Str("s")),
    O3(idField, Str("x"), "a", Num(2), "k", Arr(<<Num(1)>>)) }

\* The five operators of _update in the order it takes them, each with an
\* operand it accepts; the update documents that name the key b under two
\* of them
OperatorClauses ==
  << <<"$inc", Num(1)>>, <<"$set", Num(2)>>, <<"$addToSet", Num(1)>>,
     <<"$push", Num(1)>>, <<"$pop", Num(1)>> >>
PairUpdates ==
  { O2(OperatorClauses[p[1]][1], O1("b", OperatorClauses[p[1]][2]),
       OperatorClauses[p[2]][1], O1("b", OperatorClauses[p[2]][2])) :
      p \in {c \in (1..5) \X (1..5) : c[1] < c[2]} }

CallUpdates ==
  { <<O1("a", Num(1)), u, Opt(TRUE, FALSE)>> : u \in PairUpdates }
  \cup
  { <<O1("a", Num(1)), O2("$set", O1("c", Num(1)), "$unset", O1("a", Num(1))), Opt(FALSE, FALSE)>>,
    <<O1("a", Num(1)), O2("$set", O1("c", Num(1)), "b", Num(2)), Opt(FALSE, FALSE)>>,
    <<O1("a", Num(1)), O1("$unset", O1("a", Num(1))), Opt(FALSE, FALSE)>>,
    <<O1(idField, Str("x")), O2(idField, Str("z"), "a", Num(5)), Opt(FALSE, FALSE)>>,
    <<O1(idField, Str("x")), O2("a", Num(5), "b", O1(idField, Num(1))), Opt(FALSE, FALSE)>>,
    <<O1("a", Num(1)), O1("$inc", O1("b", Num(1))), Opt(TRUE, FALSE)>>,
    <<O1("a", Num(1)), O1("$inc", O1("b", Num(2))), Opt(FALSE, FALSE)>>,
    <<O1("a", Num(1)), O1("$inc", O1("b", Str("s"))), Opt(TRUE, FALSE)>>,
    <<O1("a", Num(1)), O1("$push", O1("k", Num(7))), Opt(TRUE, FALSE)>>,
    <<O1("a", Num(1)), O1("$push", O1("k", O1("x", Num(1)))), Opt(TRUE, FALSE)>>,
    <<O1("a", Num(1)), O1("$push", O1("b", Num(7))), Opt(FALSE, FALSE)>>,
    <<O1("a", Num(1)), O1("$pop", O1("k", Num(1))), Opt(TRUE, FALSE)>>,
    <<O1("a", Num(1)), O1("$pop", O1("k", Num(-1))), Opt(TRUE, FALSE)>>,
    <<O1("k", O1("$in", Arr(<<Num(1), Num(2)>>))), O1("$inc", O1("a", Num(1))), Opt(TRUE, FALSE)>>,
    <<O1("k", O1("$in", Arr(<<Num(1), Num(2)>>))), O1("$push", O1("b", Num(7))), Opt(TRUE, FALSE)>>,
    <<O1("k", O1("$in", Arr(<<Num(0), Num(1)>>))), O1("$inc", O1("a", Num(1))), Opt(TRUE, FALSE)>> }

CallDeletes ==
  { <<O1("k", O1("$in", Arr(<<Num(0), Num(1)>>))), JustOne(FALSE)>>,
    <<O1("k", O1("$in", Arr(<<Num(1)>>))), JustOne(TRUE)>>,
    <<O1("k", O1("$in", Arr(<<Num(1)>>))), JustOne(FALSE)>>,
    <<O1("a", Num(1)), JustOne(TRUE)>>,
    <<O1("a", O1("$lt", Arr(<<Num(1), Num(2)>>))), JustOne(FALSE)>> }

\* Collection.count(q)
CountDocs(q) ==
  /\ nops < MaxOps
  /\ \E r \in {count(db, q, Handle)} :
       last' = [NoCall EXCEPT !.op = "count", !.q = q, !.err = r.err, !.n = r.n]
  /\ nops' = nops + 1
  /\ UNCHANGED <<db, arrayIndexes, idField, metadata, tx, opened, stack>>

NextCalls ==
  \/ \E doc \in CallDocs : Insert(doc)
  \/ \E key \in IndexPaths : EnsureArrayIndex(key)
  \/ \E c \in CallUpdates : Update(c[1], c[2], c[3])
  \/ \E c \in CallDeletes : Delete(c[1], c[2])
  \/ \E q \in IndexQueries : Find(q)
  \/ \E q \in IndexQueries \cup {O1("a", Num(1))} : CountDocs(q)

SpecCalls == Init /\ [][NextCalls]_vars


(***************************************************************************)
(* Properties                                                              *)
(***************************************************************************)
\* How often x occurs in the list s, and whether two lists hold the same
\* elements the same number of times.
Count(s, x) == Cardinality({j \in DOMAIN s : s[j] = x})
SameBag(s, t) ==
  /\ Len(s) = Len(t)
  /\ \A i \in DOMAIN s : Count(s, s[i]) = Count(t, s[i])

\* The rows (_id, value) a list of values gives for a document
WithId(id, values) == [j \in DOMAIN values |-> <<id, values[j]>>]

\* The elements of the array at p, none when p holds no array
ArrayAt(document, p) ==
  IF IsObj(document) /\ IsArr(GetKey(document, p))
  THEN [j \in DOMAIN GetKey(document, p)[2] |-> JsonToSql(GetKey(document, p)[2][j])]
  ELSE << >>

\* C1, as stated: once an index on p exists, in every committed state the
\* side table C_p holds exactly one row (_id, element) for each element of
\* the array at p of each document, and no other row.
C1_SideTableHoldsArrayElementsOnly ==
  \A p \in DOMAIN db.side :
    SameBag(db.side[p],
            Flatten([i \in DOMAIN db.rows |->
                       WithId(db.rows[i].id, ArrayAt(db.rows[i].document, p))]))

\* C1, amended: once an index on p exists, in every committed state the
\* side table C_p holds exactly the rows json_each gives for the value at p
\* of each document: one per element of an array, one per member of an
\* object, one for a scalar, none when p is absent; this covers the
\* documents that existed before the index was created.
C1_SideTableConsistent ==
  \A p \in DOMAIN db.side :
    SameBag(db.side[p],
            Flatten([i \in DOMAIN db.rows |->
                       WithId(db.rows[i].id, json_each_path(db.rows[i].document, p))]))

\* An update has changed a side table that held rows before it
C1_Witness ==
  /\ last.op = "update"
  /\ last.err = NoErr
  /\ "k" \in DOMAIN last.before.side
  /\ last.before.side["k"] /= << >>
  /\ db.side["k"] /= last.before.side["k"]
  /\ Len(db.side["k"]) > 1


\* Whether an update document has a $inc by a non-number, a $pop by a value
\* other than 1 and -1
NonNumberInc(u) ==
  /\ HasKey(u, "$inc")
  /\ \E i \in DOMAIN GetKey(u, "$inc")[2] : TypeOf(GetKey(u, "$inc")[2][i][2]) /= "number"
InvalidPop(u) ==
  /\ HasKey(u, "$pop")
  /\ \E i \in DOMAIN GetKey(u, "$pop")[2] :
        GetKey(u, "$pop")[2][i][2] \notin {Num(1), Num(-1)}

RECURSIVE DeepEq(_, _)
DeepEq(x, y) ==
  IF IsObj(x) /\ IsObj(y)
  THEN /\ {x[2][i][1] : i \in DOMAIN x[2]} = {y[2][i][1] : i \in DOMAIN y[2]}
       /\ \A i \in DOMAIN x[2] : DeepEq(x[2][i][2], GetKey(y, x[2][i][1]))
  ELSE IF IsArr(x) /\ IsArr(y)
  THEN /\ Len(x[2]) = Len(y[2])
       /\ \A i \in DOMAIN x[2] : DeepEq(x[2][i], y[2][i])
  ELSE x = y

\* C2: after insert(d), findOne({idField: insert(d).idField}) gives a
\* document deep-equal to the inserted d with its identifier under idField,
\* for every idField name and also when nested objects of d have a key
\* equal to idField.
C2_IdentifierRoundTrip ==
  (last.op = "insert" /\ last.err = NoErr) =>
    DeepEq(findOne(db, O1(idField, GetKey(last.doc, idField)), Handle), last.doc)


\* C3: in every reachable state no row's stored JSON document has the
\* internal identifier key _id.
C3_NoInternalIdInDocument ==
  \A i \in DOMAIN db.rows : ~HasKey(db.rows[i].document, "_id")


\* The documents of the collection as find gives them, in rowid order
AllDocs(rows, idf) == [i \in DOMAIN rows |-> populate(rows[i], idf)]

\* The meaning of a query on a document: equality on a field (null also
\* holds of a missing field), the comparison operators, $in / $nin on an
\* array or a single value, $and / $or of queries, and the conjunction of
\* the keys of the query.
OperatorHolds(x, operator, operand) ==
  CASE operator = "$eq" -> IF operand = Null THEN x \in {Undefined, Null} ELSE DeepEq(x, operand)
    [] operator = "$ne" -> IF operand = Null THEN x \notin {Undefined, Null} ELSE ~DeepEq(x, operand)
    [] operator = "$lt" -> x[1] = "num" /\ operand[1] = "num" /\ x[2] < operand[2]
    [] operator = "$lte" -> x[1] = "num" /\ operand[1] = "num" /\ x[2] <= operand[2]
    [] operator = "$gt" -> x[1] = "num" /\ operand[1] = "num" /\ x[2] > operand[2]
    [] operator = "$gte" -> x[1] = "num" /\ operand[1] = "num" /\ x[2] >= operand[2]
    [] operator = "$in" ->
         IF IsArr(x) THEN \E i \in DOMAIN x[2] : \E j \in DOMAIN operand[2] : x[2][i] = operand[2][j]
         ELSE \E j \in DOMAIN operand[2] :
                IF operand[2][j] = Null THEN x \in {Undefined, Null} ELSE x = operand[2][j]
    [] operator = "$nin" ->
         IF IsArr(x) THEN ~\E i \in DOMAIN x[2] : \E j \in DOMAIN operand[2] : x[2][i] = operand[2][j]
         ELSE ~\E j \in DOMAIN operand[2] :
                IF operand[2][j] = Null THEN x \in {Undefined, Null} ELSE x = operand[2][j]
    [] OTHER -> FALSE
RECURSIVE Satisfies(_, _)
Satisfies(d, q) ==
  \A i \in DOMAIN q[2] :
    IF q[2][i][1] = "$and"
    THEN \A j \in DOMAIN q[2][i][2][2] : Satisfies(d, q[2][i][2][2][j])
    ELSE IF q[2][i][1] = "$or"
    THEN \E j \in DOMAIN q[2][i][2][2] : Satisfies(d, q[2][i][2][2][j])
    ELSE IF fieldOperand(q[2][i][2])
    THEN \A j \in DOMAIN q[2][i][2][2] :
           OperatorHolds(GetKey(d, q[2][i][1]), q[2][i][2][2][j][1], q[2][i][2][2][j][2])
    ELSE OperatorHolds(GetKey(d, q[2][i][1]), "$eq", q[2][i][2])

\* found holds exactly the documents of the collection that satisfy q, each
\* once
FoundExactly(found, docs, idf, q) ==
  /\ {GetKey(found[i], idf) : i \in DOMAIN found}
       = {GetKey(docs[i], idf) : i \in {j \in DOMAIN docs : Satisfies(docs[j], q)}}
  /\ Len(found) = Cardinality({j \in DOMAIN docs : Satisfies(docs[j], q)})

\* The positions of the rows that satisfy q
Matching(rows, idf, q) == {i \in DOMAIN rows : Satisfies(populate(rows[i], idf), q)}


\* C4: update(q, u, {upsert: true}) inserts exactly one document when q
\* matches none, and a later call with the same q and u, made after a call
\* that inserted, inserts none.
C4_UpsertIdempotent ==
  [][ (last'.op = "update" /\ last'.options.upsert /\ last'.err = NoErr) =>
        /\ Matching(db.rows, idField, last'.q) = {}
             => Len(db'.rows) = Len(db.rows) + 1
        /\ ( /\ last.op = "update" /\ last.err = NoErr
             /\ last.q = last'.q /\ last.update = last'.update
             /\ last.options = last'.options
             /\ Len(db.rows) = Len(last.before.rows) + 1 )
             => Len(db'.rows) = Len(db.rows) ]_vars


\* The identifiers of the documents that differ between two lists of rows
IdsOf(rows) == {rows[i].id : i \in DOMAIN rows}
RowsWith(rows, id) == {rows[i] : i \in {j \in DOMAIN rows : rows[j].id = id}}
Changed(before, after) ==
  {id \in IdsOf(before) \cup IdsOf(after) : RowsWith(before, id) /= RowsWith(after, id)}

\* C5: an update without multi changes at most one document, whatever the
\* number of clauses and keys of the update document.
C5_AtMostOneDocument ==
  (last.op = "update" /\ ~last.options.multi /\ last.err = NoErr) =>
    Cardinality(Changed(last.before.rows, db.rows)) <= 1


\* The operand the n-th item of an atom stands for, and whether the "?" of
\* a compiled query and its parameters agree in number and order
OperandItem(tok, n) == IF IsArr(tok.operand) THEN tok.operand[2][n] ELSE tok.operand
ParamsAligned(query) ==
  /\ Placeholders(query.sql) = Len(query.values)
  /\ \A i \in DOMAIN query.sql :
        query.sql[i].t \notin {"AND", "OR"} =>
          \A n \in DOMAIN query.sql[i].items :
            query.sql[i].items[n] = "?" =>
              /\ Placeholders(SubSeq(query.sql, 1, i - 1))
                   + CountPlaceholders(query.sql[i].items, n) <= Len(query.values)
              /\ query.values[Placeholders(SubSeq(query.sql, 1, i - 1))
                                + CountPlaceholders(query.sql[i].items, n)]
                   = OperandItem(query.sql[i], n)
Accepted(query) == ~query.err
C6_Holds(query) == Accepted(query) => ParamsAligned(query)

\* C6: for a query the compiler accepts, the "?" of the where fragment (the
\* join fragment has none) are as many as the parameters, and the i-th
\* parameter is the operand the i-th "?" stands for.
C6_PlaceholdersMatchParams ==
  last.op = "find" => C6_Holds(Query(last.q, arrayIndexes, idField))


\* Whether a query has a field with the operand null
HasNullEquality(q) == IsObj(q) /\ \E i \in DOMAIN q[2] : q[2][i][2] = Null

\* C7: a find whose query has a null equality, alone or with other field
\* predicates, gives exactly the documents in which that field is missing
\* or null and the other predicates hold.
C7_NullEquality ==
  (last.op = "find" /\ HasNullEquality(last.q)) =>
    /\ last.err = NoErr
    /\ FoundExactly(last.found, AllDocs(db.rows, idField), idField, last.q)


\* C8: a find whose query uses $and or $or gives exactly the documents that
\* satisfy its Boolean structure, each $or group taken as one unit.
C8_BooleanStructure ==
  (last.op = "find" /\ (HasKey(last.q, "$and") \/ HasKey(last.q, "$or"))) =>
    /\ last.err = NoErr
    /\ FoundExactly(last.found, AllDocs(db.rows, idField), idField, last.q)


\* How often v occurs in the array at k, the other elements of that array,
\* and the law of $addToSet between the rows before and after a call
Occurrences(document, k, v) ==
  IF IsObj(document) /\ IsArr(GetKey(document, k)) THEN Count(GetKey(document, k)[2], v) ELSE 0
Others(document, k, v) ==
  IF IsObj(document) /\ IsArr(GetKey(document, k))
  THEN SelectSeq(GetKey(document, k)[2], LAMBDA x : x /= v)
  ELSE << >>
SetLaw(before, after, idf, q, multi, k, v) ==
  /\ Matching(before, idf, q) /= {} => Len(after) = Len(before)
  /\ \A i \in Matching(before, idf, q) :
        ( /\ GetKey(before[i].document, k)[1] \in {"undefined", "arr"}
          /\ Occurrences(before[i].document, k, v) <= 1 ) =>
          \A j \in DOMAIN after :
            after[j].id = before[i].id =>
              /\ Occurrences(after[j].document, k, v) <= 1
              /\ (multi \/ Cardinality(Matching(before, idf, q)) = 1)
                   => Occurrences(after[j].document, k, v) = 1
              /\ Others(after[j].document, k, v) = Others(before[i].document, k, v)

\* C9: after update(q, {$addToSet: {k: v}}), under any options, every
\* document that matched q and held v at most once in the array at k (or
\* had no k) holds v at most once, exactly once when the update reached it
\* (multi, or the only match), with its other elements as they were; and
\* when q matched a document no document has been added.
C9_AddToSetLaw ==
  ( /\ last.op = "update" /\ last.err = NoErr
    /\ HasKey(last.update, "$addToSet") /\ Len(last.update[2]) = 1
    /\ Len(GetKey(last.update, "$addToSet")[2]) = 1 ) =>
    SetLaw(last.before.rows, db.rows, idField, last.q, last.options.multi,
           GetKey(last.update, "$addToSet")[2][1][1],
           GetKey(last.update, "$addToSet")[2][1][2])


\* Whether the committed metadata record of the collection holds the entry
\* of the index on p, as an object or as its JSON text
HasEntry(table, p) ==
  \E i \in DOMAIN table.rows :
    /\ table.rows[i].id = CollectionName
    /\ IsArr(GetKey(table.rows[i].document, "arrayIndexes"))
    /\ \E j \in DOMAIN GetKey(table.rows[i].document, "arrayIndexes")[2] :
         GetKey(table.rows[i].document, "arrayIndexes")[2][j]
           \in {IndexEntry(p), StrJson(IndexEntry(p))}

\* C11: after a call of ensureArrayIndex that failed, at any step or at
\* the commit of its transaction, the handle's arrayIndexes map holds a
\* path p only if the side table C_p and its metadata entry are committed.
C11_FailedIndexNotInMap ==
  (last.op = "ensureArrayIndex" /\ last.err /= NoErr) =>
    \A p \in arrayIndexes : p \in DOMAIN db.side /\ HasEntry(metadata, p)

\* The paths whose side table a compiled query reads: by a join ($in) or
\* by a subquery ($nin)
IndexTablesOf(query) ==
  {query.join[j].field : j \in {n \in DOMAIN query.join : query.join[n].kind = "index"}}
    \cup {query.sql[i].join.field :
            i \in {n \in DOMAIN query.sql :
                     query.sql[n].t = "nin" /\ query.sql[n].join.kind = "index"}}

\* C12: a find on the handle, whatever the progress of an ensureArrayIndex
\* on the same handle, is compiled to read a side table only when that
\* table is committed; it never reads the side table of a transaction that
\* has not committed or was rolled back.
C12_FindReadsCommittedSideTablesOnly ==
  last.op = "find" =>
    IndexTablesOf(Query(last.q, arrayIndexes, idField)) \subseteq DOMAIN db.side

\* C13: a handle opened with getCollection after ensureArrayIndex(p) has
\* committed has arrayIndexes[p] equal to the side-table name C_p.
C13_OpenedHandleHasIndex ==
  last.op = "getCollection" =>
    \A p \in DOMAIN db.side : <<Str(p), Str(IndexTable(p))>> \in opened.arrayIndexes


\* Whether q is {p: {op: L}} for one path p and a list L
IsListQuery(q, op) ==
  /\ IsObj(q) /\ Len(q[2]) = 1
  /\ IsObj(q[2][1][2]) /\ Len(q[2][1][2][2]) = 1
  /\ q[2][1][2][2][1][1] = op
  /\ IsArr(q[2][1][2][2][1][2])

\* The handle without its array indexes: the unindexed compilation
Unindexed == [arrayIndexes |-> {}, idField |-> idField]

\* C14: find({p: {$in: L}}) returns exactly the documents whose array at p
\* shares an element with L, each once, and the handle's compilation (with
\* the index when p has one) returns what the unindexed compilation
\* returns.
C14_InFindsSharingDocuments ==
  (last.op = "find" /\ IsListQuery(last.q, "$in")) =>
    /\ last.err = NoErr
    /\ FoundExactly(last.found, AllDocs(db.rows, idField), idField, last.q)
    /\ find(db, last.q, 0, Unindexed).docs = last.found

\* Whether the operator update u, of $set and $addToSet clauses, shows in
\* the document: every key of $set holds its value, every key of $addToSet
\* holds an array with its value
Applied(doc, u) ==
  /\ HasKey(u, "$set") =>
       \A i \in DOMAIN GetKey(u, "$set")[2] :
          GetKey(doc, GetKey(u, "$set")[2][i][1]) = GetKey(u, "$set")[2][i][2]
  /\ HasKey(u, "$addToSet") =>
       \A i \in DOMAIN GetKey(u, "$addToSet")[2] :
          /\ IsArr(GetKey(doc, GetKey(u, "$addToSet")[2][i][1]))
          /\ \E j \in DOMAIN GetKey(doc, GetKey(u, "$addToSet")[2][i][1])[2] :
               GetKey(doc, GetKey(u, "$addToSet")[2][i][1])[2][j]
                 = GetKey(u, "$addToSet")[2][i][2]

\* The new document of an upsert: the last row, which holds the plain
\* fields of q and shows u; the rows before it are as they were
UpsertCreated(before, after, idf, q, u) ==
  /\ Len(after) = Len(before) + 1
  /\ SubSeq(after, 1, Len(before)) = before
  /\ \A i \in DOMAIN filterClauses(q)[2] :
        filterClauses(q)[2][i][1] /= idf =>
          DeepEq(GetKey(after[Len(after)].document, filterClauses(q)[2][i][1]),
                 filterClauses(q)[2][i][2])
  /\ Applied(after[Len(after)].document, u)

\* C16: an upsert with an operator update creates exactly one document
\* when none matches q, holding the fields of q without their $-keys and
\* showing u, every other document unchanged; when a document matches q it
\* creates none and changes matching documents only.
C16_UpsertWithOperators ==
  (last.op = "update" /\ last.options.upsert /\ containsClauses(last.update)) =>
    /\ last.err = NoErr
    /\ IF Matching(last.before.rows, idField, last.q) = {}
       THEN UpsertCreated(last.before.rows, db.rows, idField, last.q, last.update)
       ELSE /\ Len(db.rows) = Len(last.before.rows)
            /\ Changed(last.before.rows, db.rows)
                 \subseteq {last.before.rows[i].id :
                              i \in Matching(last.before.rows, idField, last.q)}


\* The query {p: {$in: L}} of a query {p: {$nin: L}}
InOf(q) == O1(q[2][1][1], O1("$in", q[2][1][2][2][1][2]))

\* The identifiers of a list of found documents
FoundIds(found, idf) == {GetKey(found[i], idf) : i \in DOMAIN found}

\* nin and in are the outcomes [docs, err] of the two finds on the rows:
\* both succeeded, no document is in both, every document is in one, and
\* the documents without p are in nin
Complement(nin, in, rows, idf, p) ==
  /\ nin.err = NoErr /\ in.err = NoErr
  /\ FoundIds(nin.docs, idf) \cap FoundIds(in.docs, idf) = {}
  /\ FoundIds(nin.docs, idf) \cup FoundIds(in.docs, idf)
       = {Str(rows[i].id) : i \in DOMAIN rows}
  /\ \A i \in DOMAIN rows :
        ~HasKey(rows[i].document, p) => Str(rows[i].id) \in FoundIds(nin.docs, idf)

\* C15: find({p: {$nin: L}}) is the exact complement of find({p: {$in: L}})
\* within the collection, p indexed or not: the results are disjoint, their
\* union is all documents, and the documents in which p is missing are in
\* the $nin result.
C15_NinIsComplementOfIn ==
  (last.op = "find" /\ IsListQuery(last.q, "$nin")) =>
    Complement([docs |-> last.found, err |-> last.err],
               find(db, InOf(last.q), 0, Handle),
               db.rows, idField, last.q[2][1][1])


\* Whether the top-level keys of an update document mix $-keys with plain
\* keys, or name a $-key that is none of the five operators
SupportedOperators == {"$set", "$inc", "$push", "$pop", "$addToSet"}
Unsupported(u) ==
  /\ IsObj(u)
  /\ \/ /\ \E i \in DOMAIN u[2] : StartsWithDollar(u[2][i][1])
        /\ \E i \in DOMAIN u[2] : ~StartsWithDollar(u[2][i][1])
     \/ \E i \in DOMAIN u[2] :
          StartsWithDollar(u[2][i][1]) /\ u[2][i][1] \notin SupportedOperators

\* C17: update(q, u) raises and changes no document when u mixes $-keys
\* and plain keys or names an unsupported $-key, also when u holds a
\* supported operator clause besides.
C17_UnsupportedUpdateRaises ==
  (last.op = "update" /\ Unsupported(last.update)) =>
    /\ last.err /= NoErr
    /\ db.rows = last.before.rows

\* Whether two of the five operators of an update document name one key
SameKeyPair(u) ==
  /\ IsObj(u)
  /\ \E i, j \in DOMAIN u[2] :
       /\ i /= j
       /\ u[2][i][1] \in SupportedOperators /\ u[2][j][1] \in SupportedOperators
       /\ IsObj(u[2][i][2]) /\ IsObj(u[2][j][2])
       /\ \E m \in DOMAIN u[2][i][2][2] : HasKey(u[2][j][2], u[2][i][2][2][m][1])

\* C18: an update document in which two distinct operators among $inc,
\* $set, $addToSet, $push and $pop name the same key makes update raise,
\* and after the rollback no document and no side table differs from what
\* it was before the call.
C18_SameKeyRaises ==
  (last.op = "update" /\ SameKeyPair(last.update)) =>
    /\ last.err /= NoErr
    /\ db.rows = last.before.rows
    /\ db.side = last.before.side

\* An update that named one key twice raised after a statement of it had
\* run on a matching document of an indexed collection
C18_Witness ==
  /\ last.op = "update"
  /\ SameKeyPair(last.update)
  /\ last.err = "Can't apply multiple updates to single key"
  /\ last.n > 0
  /\ Matching(last.before.rows, idField, last.q) /= {}
  /\ "k" \in DOMAIN db.side


\* The rows without those whose identifier is in gone
Without(rows, gone) == SelectSeq(rows, LAMBDA r : r.id \notin gone)

\* What a delete may do to the rows: the rows that are gone matched, one
\* is gone with justOne when one matched and all of them without, and the
\* rows that stay are as they were
DeleteLaw(before, after, gone, matched, justOne) ==
  /\ after = Without(before, gone)
  /\ gone \subseteq matched
  /\ IF justOne
     THEN Cardinality(gone) = IF matched = {} THEN 0 ELSE 1
     ELSE gone = matched

\* C19: delete(q, {justOne: true}) removes exactly one document matching q
\* when one matches and none otherwise, delete(q) removes every document
\* matching q, and every other document is left as it was, also when q is
\* an array-containment predicate.
C19_DeleteRemovesMatching ==
  last.op = "delete" =>
    /\ last.err = NoErr
    /\ DeleteLaw(last.before.rows, db.rows,
                 IdsOf(last.before.rows) \ IdsOf(db.rows),
                 {last.before.rows[i].id :
                    i \in Matching(last.before.rows, idField, last.q)},
                 last.options.justOne)

\* An object without its key k
WithoutKey(o, k) == Obj(SelectSeq(o[2], LAMBDA e : e[1] /= k))

\* Whether q is {idField: x} for a string x that is the identifier of a row
ById(q, idf, rows) ==
  /\ IsObj(q) /\ Len(q[2]) = 1
  /\ q[2][1][1] = idf
  /\ q[2][1][2][1] = "str"
  /\ q[2][1][2][2] \in IdsOf(rows)

\* C20: after update({idField: x}, replacementDoc) the row still has the
\* identifier x, its stored JSON is replacementDoc without the identifier
\* key, whatever identifier replacementDoc carries, and no other row has
\* changed.
C20_ReplacementKeepsIdentifier ==
  ( /\ last.op = "update" /\ ~last.options.upsert
    /\ ~containsClauses(last.update)
    /\ ById(last.q, idField, last.before.rows) ) =>
    /\ last.err = NoErr
    /\ Len(db.rows) = Len(last.before.rows)
    /\ \A i \in DOMAIN last.before.rows :
         IF last.before.rows[i].id = last.q[2][1][2][2]
         THEN /\ db.rows[i].id = last.before.rows[i].id
              /\ DeepEq(db.rows[i].document, WithoutKey(last.update, idField))
         ELSE db.rows[i] = last.before.rows[i]


\* The database seen from the level that encloses the innermost open
\* transaction of a stack: by other handles when no transaction is open
Visible(frames, committed) ==
  IF frames = << >> THEN committed ELSE frames[Len(frames)].work

ScalarComparators == {"$eq", "$ne", "$gt", "$gte", "$lt", "$lte", "$like"}
BadQuery(q) ==
  /\ IsObj(q)
  /\ \E i \in DOMAIN q[2] :
       /\ fieldOperand(q[2][i][2])
       /\ \E j \in DOMAIN q[2][i][2][2] :
            \/ q[2][i][2][2][j][1] \notin ScalarComparators \cup {"$in", "$nin"}
            \/ /\ q[2][i][2][2][j][1] \in ScalarComparators
               /\ TypeOf(q[2][i][2][2][j][2]) = "object"
               /\ q[2][i][2][2][j][2] /= Null

\* C22: find, update and delete with a query that names an unsupported
\* operator, or a scalar comparator with an operand that is no scalar, fail
\* with the error of the query compiler, before any statement built from
\* the query reaches the backend, and the database is unchanged.
C22_BadQueryRejectedAtCompile ==
  (last.op \in {"find", "update", "delete"} /\ BadQuery(last.q)) =>
    /\ last.err = "QueryError"
    /\ db.rows = last.before.rows


\* The handle opened last with getCollection
OpenedHandle == [arrayIndexes |-> {}, idField |-> opened.idField]
PersistedIdField == IF opened.given = "" THEN "_id" ELSE opened.given

\* C23: a handle opened with getCollection(name) and no idField has the
\* idField last given to getCollection(name, idField), or _id when none
\* ever was, and so does the metadata record; the handle returns every
\* document with its identifier under that name, finds it by that name and
\* upserts on that name into the primary-key column.
C23_IdFieldPersisted ==
  (last.op = "getCollection" /\ last.q = Undefined) =>
    /\ opened.idField = PersistedIdField
    /\ GetKey(findOne(metadata, O1("_id", Str(CollectionName)), MetaHandle), "idField")
         = Str(PersistedIdField)
    /\ \A i \in DOMAIN db.rows :
         \E r \in {find(db, O1(PersistedIdField, Str(db.rows[i].id)), 0, OpenedHandle)} :
           /\ r.err = NoErr
           /\ Len(r.docs) = 1
           /\ GetKey(r.docs[1], PersistedIdField) = Str(db.rows[i].id)
    /\ \E r \in {_update(db, O1(PersistedIdField, Str("n")),
                         O1("$set", O1("c", Num(1))), Opt(FALSE, TRUE), OpenedHandle)} :
         /\ r.err = NoErr
         /\ \E i \in DOMAIN r.db.rows : r.db.rows[i].id = "n"

C23_Witness ==
  /\ last.op = "getCollection"
  /\ last.q = Undefined
  /\ opened.given = "id"
  /\ opened.idField = "id"
  /\ idField = "_id"
  /\ db.rows /= << >>


\* The idField the metadata record of the collection holds
RecordedIdField(table) ==
  GetKey(findOne(table, O1("_id", Str(CollectionName)), MetaHandle), "idField")

\* C24: after an assignment to idField on the open handle the metadata
\* record of the collection holds the new name, and a handle opened next
\* without an idField argument has the new name as its idField.
C24_AssignedIdFieldPersisted ==
  [][ /\ last'.op = "idField" => RecordedIdField(metadata') = Str(idField')
      /\ (last.op = "idField" /\ last'.op = "getCollection" /\ last'.q = Undefined)
           => opened'.idField = idField ]_vars


\* Whether u is {op: {k: v}}, one operator with one key; its key and value
OneClause(u, op) ==
  /\ IsObj(u) /\ Len(u[2]) = 1 /\ u[2][1][1] = op
  /\ IsObj(u[2][1][2]) /\ Len(u[2][1][2][2]) = 1
KeyOf(u) == u[2][1][2][2][1][1]
ValueOf(u) == u[2][1][2][2][1][2]

\* The rows update(q, u, options) is to change: every matching row with
\* multi, the first one without
Targets(rows, idf, q, options) ==
  IF options.multi THEN Matching(rows, idf, q)
  ELSE {i \in Matching(rows, idf, q) : \A j \in Matching(rows, idf, q) : i <= j}

\* The number at k of a document, an absent k counting as 0
NumberAt(doc, k) == IF HasKey(doc, k) THEN GetKey(doc, k)[2] ELSE 0
NumericAt(doc, k) == ~HasKey(doc, k) \/ TypeOf(GetKey(doc, k)) = "number"

\* The law of one $inc call, from the rows before it to the rows after it
IncLaw(before, after, idf, call) ==
  IF TypeOf(ValueOf(call.update)) = "number"
  THEN /\ call.err = NoErr
       /\ Len(after) = Len(before)
       /\ \A i \in DOMAIN before :
            /\ after[i].id = before[i].id
            /\ IF i \in Targets(before, idf, call.q, call.options)
               THEN NumericAt(before[i].document, KeyOf(call.update)) =>
                      after[i].document
                        = SetKey(before[i].document, KeyOf(call.update),
                                 Num(NumberAt(before[i].document, KeyOf(call.update))
                                       + ValueOf(call.update)[2]))
               ELSE after[i].document = before[i].document
  ELSE call.err /= NoErr /\ after = before

\* The documents a call updated: the positions whose row differs
Updated(before, after) ==
  {i \in DOMAIN before \cap DOMAIN after : after[i] /= before[i]}

\* What one $inc call leaves in the documents it updated: the old number at
\* the key plus n, and nothing else changed; only documents that satisfy
\* the query are updated
IncResult(before, after, idf, call) ==
  IF TypeOf(ValueOf(call.update)) = "number"
  THEN /\ Len(after) = Len(before)
       /\ \A i \in Updated(before, after) :
            /\ after[i].id = before[i].id
            /\ i \in Targets(before, idf, call.q, call.options)
            /\ NumericAt(before[i].document, KeyOf(call.update)) =>
                 after[i].document
                   = SetKey(before[i].document, KeyOf(call.update),
                            Num(NumberAt(before[i].document, KeyOf(call.update))
                                  + ValueOf(call.update)[2]))
  ELSE call.err /= NoErr /\ after = before

\* C25: update(q, {$inc: {k: n}}) with a number n leaves at k of each
\* updated document its previous number plus n, an absent k counting as 0,
\* and changes nothing else; two increments in a row leave old + n1 + n2;
\* with a non-number n the update raises and no document changes.
C25_IncAdds ==
  [][ /\ (last'.op = "update" /\ OneClause(last'.update, "$inc")) =>
            IncResult(db.rows, db'.rows, idField, last')
      /\ ( /\ last.op = "update" /\ OneClause(last.update, "$inc") /\ last.err = NoErr
           /\ last'.op = "update" /\ OneClause(last'.update, "$inc") /\ last'.err = NoErr
           /\ KeyOf(last.update) = KeyOf(last'.update) ) =>
           \A i \in Updated(last.before.rows, db.rows) \cap Updated(db.rows, db'.rows) :
              NumericAt(last.before.rows[i].document, KeyOf(last.update)) =>
                GetKey(db'.rows[i].document, KeyOf(last.update))
                  = Num(NumberAt(last.before.rows[i].document, KeyOf(last.update))
                          + ValueOf(last.update)[2] + ValueOf(last'.update)[2]) ]_vars

C25_Witness ==
  /\ last.op = "update" /\ last.err = NoErr
  /\ last.update = O1("$inc", O1("b", Num(2)))
  /\ Len(db.rows) = 1
  /\ last.before.rows[1].document = O3("a", Num(1), "k", Arr(<<Num(0)>>), "b", Num(1))
  /\ GetKey(last.before.rows[1].document, "b") = Num(1)
  /\ GetKey(db.rows[1].document, "b") = Num(3)


\* The elements of the array at k of a document, none when k is absent
ElementsAt(doc, k) == IF IsArr(GetKey(doc, k)) THEN GetKey(doc, k)[2] ELSE << >>
ArrayOrAbsent(doc, k) == ~HasKey(doc, k) \/ IsArr(GetKey(doc, k))
InScope(doc, k, op) ==
  IF op = "$push" THEN ArrayOrAbsent(doc, k) ELSE ElementsAt(doc, k) /= << >>

\* The law of an update by one clause on the array at its key: the
\* targeted documents with an array there (or nothing, for $push; not an
\* empty one, for $pop) hold their old array with the value appended, or
\* without its first element; the documents not targeted are unchanged
ArrayLaw(before, after, idf, call, op) ==
  /\ call.err = NoErr
  /\ Len(after) = Len(before)
  /\ \A i \in DOMAIN before :
       /\ after[i].id = before[i].id
       /\ IF i \in Targets(before, idf, call.q, call.options)
          THEN InScope(before[i].document, KeyOf(call.update), op) =>
                 after[i].document
                   = SetKey(before[i].document, KeyOf(call.update),
                       Arr(IF op = "$push"
                           THEN Append(ElementsAt(before[i].document, KeyOf(call.update)),
                                       ValueOf(call.update))
                           ELSE Tail(ElementsAt(before[i].document, KeyOf(call.update)))))
          ELSE after[i].document = before[i].document
PopsFirst(call) ==
  /\ call.op = "update" /\ OneClause(call.update, "$pop")
  /\ ValueOf(call.update) = Num(-1)
PopsLast(call) ==
  /\ call.op = "update" /\ OneClause(call.update, "$pop")
  /\ ValueOf(call.update) = Num(1)
Pushes(call) == call.op = "update" /\ OneClause(call.update, "$push")

\* C26: update(q, {$push: {k: v}}) appends v as the last element of the
\* array at k of each matched document, creating [v] when k is absent, and
\* keeps the elements before it; a following update(q, {$pop: {k: 1}})
\* restores the array as it was before the push; $pop with -1 removes
\* exactly the first element.
C26_PushAppendsPopRemoves ==
  [][ /\ Pushes(last') => ArrayLaw(db.rows, db'.rows, idField, last', "$push")
      /\ PopsFirst(last') => ArrayLaw(db.rows, db'.rows, idField, last', "$pop")
      /\ ( /\ Pushes(last) /\ last.err = NoErr /\ PopsLast(last')
           /\ last.q = last'.q /\ last.options = last'.options
           /\ KeyOf(last.update) = KeyOf(last'.update) ) =>
           /\ last'.err = NoErr
           /\ \A i \in DOMAIN last.before.rows :
                IsArr(GetKey(last.before.rows[i].document, KeyOf(last.update))) =>
                  db'.rows[i].document = last.before.rows[i].document ]_vars


\* C27: count(q) is the number of documents find(q) returns on the same
\* collection; a document whose array holds several of the values of an
\* $in list is counted once, with and without an array index.
C27_CountIsNumberFound ==
  last.op = "count" =>
    \E f \in {find(db, last.q, 0, Handle)} :
      f.err = NoErr => (last.err = NoErr /\ last.n = Len(f.docs))


\* Whether every alias the where fragment of a compiled query reads is
\* introduced by its join fragment; the subquery of a $nin atom holds its
\* own join
AliasesIntroduced(query) ==
  \A i \in DOMAIN query.sql :
    /\ query.sql[i].t = "in" =>
         query.sql[i].alias \in {query.join[j].field : j \in DOMAIN query.join}
    /\ query.sql[i].t = "nin" => query.sql[i].inner.alias = query.sql[i].join.field

\* C28: in the query compiled for a find or count, every side table or
\* json_each alias the where fragment references is introduced in the join
\* fragment or in the $nin subquery itself, wherever the $in predicate sits
\* in the query, inside an explicit $and or $or included.
C28_AliasesIntroduced ==
  (last.op \in {"find", "count"} /\ IsObj(last.q) /\ ~Query(last.q, arrayIndexes, idField).err)
    => AliasesIntroduced(Query(last.q, arrayIndexes, idField))


\* C29: update(q, u, {multi: true}) with an $in predicate in q applies u
\* exactly once to every matching document, whatever the number of elements
\* of its array in the list ($inc adds n once, $push appends one element),
\* with and without an array index, and leaves the other documents
\* unchanged.
C29_MultiUpdateOncePerDocument ==
  (last.op = "update" /\ last.options.multi /\ IsListQuery(last.q, "$in")) =>
    /\ OneClause(last.update, "$inc") =>
         IncLaw(last.before.rows, db.rows, idField, last)
    /\ OneClause(last.update, "$push") =>
         ArrayLaw(last.before.rows, db.rows, idField, last, "$push")


\* C30: every call of initialize() that resolves returns the collection
\* in state initialized, a call made while an earlier initialize() on the
\* instance is in progress or after it failed included.
C30_InitializeResolvesInitialized ==
  (last.op = "initialize" /\ last.err = NoErr) => opened.status = "initialized"
====
